---- MODULE Spec2Model ----
(***************************************************************************)
(* cached-build-function: a disk-backed memoizing build function.          *)
(*                                                                         *)
(* The model follows lib/cached-build-function.js (class                   *)
(* CachedBuildFunction), the result codec (serialize-result.js,            *)
(* deserialize-result.js), file-fingerprint.js and sha1.js.                *)
(*                                                                         *)
(* JavaScript runs one task at a time, so every action below is the code   *)
(* that runs between two awaits of a pipeline, or one synchronous API      *)
(* call.  File-system completions (readFile, stat, writeFileAtomic,        *)
(* ensureDir) and the user's run()/after() functions finish in any order.  *)
(***************************************************************************)
EXTENDS Naturals, Sequences, FiniteSets, TLC

VARIABLES
  file,                 \* the one file run() may observe: its stat, or absent
  now,                  \* file-system clock: number of file operations so far
  disk,                 \* cache folder: cache key -> text of "<key>.json"
  artifacts,            \* cache folder: the keys that have a file "<key>-<label>"
  writer,               \* for each record on disk: who wrote it (history)
  inst,                 \* number of CachedBuildFunction instances created
  ncalls,               \* number of calls (direct or enqueue) issued so far
  cls,                  \* static properties of the current instance's class
  dirEnsured,           \* self._dirEnsured
  usedCacheKeys,        \* self._usedCacheKeys
  currentlyRunningMap,  \* self._currentlyRunningMap: cache key -> promise
  calls,                \* the promises made by _run, each with its pipeline
  items,                \* every queue item made by enqueue()
  queue,                \* self._queue: the items not yet flushed
  flushes,              \* every flush() made, with its captured queue
  cleaning,             \* the cleanUnused() of this instance: how far it is
  thrown,               \* the errors calls on this instance threw synchronously
  dirEnsuredPromise,    \* self._dirEnsuredPromise: pending, fulfilled, rejected
  codec,                \* a result taken through serializeResult and deserializeResult
  derived               \* two (version, derived input) pairs and their cache keys

vars == <<file, now, disk, artifacts, writer, inst, ncalls, cls, dirEnsured,
          usedCacheKeys, currentlyRunningMap, calls, items, queue, flushes, cleaning,
          thrown, dirEnsuredPromise, codec, derived>>

----------------------------------------------------------------------------
(* Bounds of the model *)

MaxCalls == 2
MaxFileOps == 1
MaxInstances == 2
MaxFlushes == 1
MaxQueueCalls == 3
MaxBatchCalls == 2
MaxBatchFlushes == 2

----------------------------------------------------------------------------
(* JavaScript values *)

Num(n) == [t |-> "num", v |-> n]
Str(s) == [t |-> "str", v |-> s]
Arr(s) == [t |-> "arr", v |-> s]
NaN == [t |-> "nan"]
Null == [t |-> "null"]
Undef == [t |-> "undef"]
Bool(b) == [t |-> "bool", v |-> b]
\* An Error instance; live is TRUE for the object thrown by user code and FALSE
\* for one rebuilt from its JSON data by deserializeResult
ErrorObj(m, l) == [t |-> "error", message |-> m, live |-> l]

\* JavaScript truthiness, as tested by `if (result.reason)`
Truthy(v) ==
  CASE v.t = "num" -> v.v # 0
    [] v.t = "str" -> v.v # <<>>
    [] v.t = "bool" -> v.v
    [] v.t \in {"nan", "null", "undef"} -> FALSE
    [] OTHER -> TRUE

----------------------------------------------------------------------------
(* Strings are sequences of characters *)

DigitChar == <<"0", "1", "2", "3", "4", "5", "6", "7", "8", "9">>

RECURSIVE NumToStr(_)
NumToStr(n) ==
  IF n < 10 THEN <<DigitChar[n + 1]>>
  ELSE NumToStr(n \div 10) \o <<DigitChar[(n % 10) + 1]>>

RECURSIVE Join(_, _)
Join(strs, sep) ==
  IF strs = <<>> THEN <<>>
  ELSE IF Len(strs) = 1 THEN strs[1]
  ELSE strs[1] \o sep \o Join(Tail(strs), sep)

\* JSON.stringify of a number, a string or an array of these, as a string
RECURSIVE JSONstringify(_)
JSONstringify(v) ==
  CASE v.t = "num" -> NumToStr(v.v)
    [] v.t = "str" -> <<"\"">> \o v.v \o <<"\"">>
    [] v.t = "arr" ->
         <<"[">> \o Join([i \in DOMAIN v.v |-> JSONstringify(v.v[i])], <<",">>)
                 \o <<"]">>
    [] OTHER -> <<"n", "u", "l", "l">>

\* String(v) as done by `+` on a string and v
ToStr(v) ==
  CASE v.t = "num" -> NumToStr(v.v)
    [] v.t = "str" -> v.v
    [] v.t = "nan" -> <<"N", "a", "N">>
    [] v.t = "null" -> <<"n", "u", "l", "l">>
    [] OTHER -> <<"u", "n", "d", "e", "f", "i", "n", "e", "d">>

\* typeof v
TypeOf(v) ==
  CASE v.t \in {"num", "nan"} -> "number"
    [] v.t = "str" -> "string"
    [] v.t = "undef" -> "undefined"
    [] v.t = "fn" -> "function"
    [] OTHER -> "object"

LIBRARY_VERSION == 7

\* sha1 is collision-resistant: the digest stands for its input
sha1(input) == [sha1 |-> input]

----------------------------------------------------------------------------
(* Classes: the static properties a subclass defines *)

\* version, cacheKey (absent, or selecting the first argument), after (absent
\* or defined) and outputConsistency of the classes instances are made of
Class(v, ck, af, oc) ==
  [version |-> v, cacheKey |-> ck, after |-> af, outputConsistency |-> oc]

Classes ==
  { Class(Num(1), "none", FALSE, TRUE),
    Class(Str(<<"1">>), "none", FALSE, TRUE),
    Class(Num(2), "none", FALSE, TRUE),
    Class(Num(1), "none", FALSE, FALSE),
    Class(Num(1), "first", TRUE, TRUE),
    Class(Num(1), "none", TRUE, FALSE),
    Class(Null, "none", FALSE, TRUE) }

\* Argument lists (a, b): a selects what run() does, b is a second argument
\* (such as a destination) that run() ignores
ArgsSet == {<<Num(1), Num(1)>>, <<Num(1), Num(2)>>, <<Num(2), Num(1)>>, <<Num(3), Num(1)>>}

\* static cacheKey (...args): absent, or selecting the first argument
cacheKeyFn(k, args) == IF k.cacheKey = "first" THEN Arr(<<args[1]>>) ELSE Arr(args)

\* _run: let version = this.constructor.version; a function is called
VersionOf(k) == IF k.version.t = "fn" THEN k.version.returns ELSE k.version

\* InvalidVersion as it would be without the type check
InvalidVersionNever(k) == FALSE

\* _run: typeof version !== 'string' && typeof version !== 'number'
InvalidVersion(k) == TypeOf(VersionOf(k)) \notin {"string", "number"}

\* _run: if (typeof hashInput !== 'string') { hashInput = JSON.stringify(hashInput) }
Canonical(h) == IF h.t # "str" THEN JSONstringify(h) ELSE h.v

\* _run: the string handed to sha1
PreHash(version, h) ==
  NumToStr(LIBRARY_VERSION) \o <<",">> \o ToStr(version) \o <<",">> \o Canonical(h)

\* CacheKeyOf as it would be if the key also depended on the instance
CacheKeyPerInstance(k, args) ==
  sha1(NumToStr(inst) \o <<",">> \o ToStr(VersionOf(k)) \o <<",">>
         \o JSONstringify(cacheKeyFn(k, args)))

\* CacheKeyOf as it would be if the static cacheKey function were not used
CacheKeyOfArgs(k, args) ==
  sha1(NumToStr(LIBRARY_VERSION) \o <<",">> \o ToStr(VersionOf(k)) \o <<",">>
         \o JSONstringify(Arr(args)))

\* _run: derivation of the cache key
CacheKeyOf(k, args) == sha1(PreHash(VersionOf(k), cacheKeyFn(k, args)))

\* The user's run(): for a = 1 it observes the file and returns a number, for
\* a = 2 it returns NaN (not a JSON value), for a = 3 it throws an Error
Observes(args) == args[1] = Num(1)

\* run() for a = 1 also writes a file at this.cachePath('out')
WritesArtifact(args) == args[1] = Num(1)

RunFn(args) ==
  CASE args[1] = Num(1) -> [state |-> "fulfilled", value |-> Num(3), reason |-> Undef]
    [] args[1] = Num(2) -> [state |-> "fulfilled", value |-> NaN, reason |-> Undef]
    [] OTHER -> [state |-> "rejected", value |-> Undef,
                 reason |-> ErrorObj("boom", TRUE)]

\* The user's after(): returns this.value together with the call's own second
\* argument; for a = 2 it throws
AfterFn(args, value) ==
  IF args[1] # Num(2)
  THEN [state |-> "fulfilled",
        value |-> [t |-> "after", of |-> value, dst |-> args[2]],
        reason |-> Undef]
  ELSE [state |-> "rejected", value |-> Undef,
        reason |-> ErrorObj("after", TRUE)]

----------------------------------------------------------------------------
(* File fingerprints *)

NoFile == [exists |-> FALSE, size |-> 0, mtime |-> 0, birth |-> 0]

fileFingerprint(st) ==
  NumToStr(st.size) \o <<",">> \o NumToStr(st.mtime) \o <<",">> \o NumToStr(st.birth)

\* detectChanges as it would be if it reported a change every time
detectChangesAlways(observedFiles, st) == observedFiles # << >>

\* detectChanges as it would be if it never reported a change
detectChangesNever(observedFiles, st) == FALSE

\* detectChanges, for observed files that all exist
detectChanges(observedFiles, st) ==
  \E i \in DOMAIN observedFiles : fileFingerprint(st) # observedFiles[i].fingerprint

----------------------------------------------------------------------------
(* Result codec *)

NoResult == [state |-> "none", value |-> Undef, reason |-> Undef, observedFiles |-> <<>>]
NoText == [state |-> "none"]

\* JSON.stringify of a property value: the JSON value written, or omitted
ToJSON(v) ==
  CASE v.t = "undef" -> [j |-> "omitted"]
    [] v.t \in {"nan", "null"} -> [j |-> "null"]
    [] v.t = "error" -> [j |-> "object", message |-> v.message]
    [] OTHER -> [j |-> "value", v |-> v]

\* JSON.parse of a property
FromJSON(j) ==
  CASE j.j = "omitted" -> Undef
    [] j.j = "null" -> Null
    [] j.j = "object" -> [t |-> "object", message |-> j.message]
    [] OTHER -> j.v

\* serializeResult as it would be if it did not store the reason
serializeResultNoReason(result) ==
  [state |-> result.state, value |-> ToJSON(result.value),
   reason |-> [j |-> "omitted"], observedFiles |-> result.observedFiles]

serializeResult(result) ==
  LET reason ==
        IF Truthy(result.reason)
        THEN IF result.reason.t = "error"
             THEN [j |-> "reason", isError |-> TRUE, data |-> ToJSON(result.reason)]
             ELSE [j |-> "reason", isError |-> FALSE, data |-> ToJSON(result.reason)]
        ELSE [j |-> "omitted"]
  IN [state |-> result.state, value |-> ToJSON(result.value), reason |-> reason,
      observedFiles |-> result.observedFiles]

deserializeResult(text) ==
  LET reason ==
        IF text.reason.j = "reason"
        THEN IF text.reason.isError
             THEN ErrorObj(text.reason.data.message, FALSE)
             ELSE FromJSON(text.reason.data)
        ELSE Undef
  IN [state |-> text.state, value |-> FromJSON(text.value), reason |-> reason,
      observedFiles |-> text.observedFiles]

----------------------------------------------------------------------------
(* Initial state: a fresh instance on an empty cache folder *)

\* No cleanUnused() has been called on the instance
NotCleaning ==
  [pc |-> "idle",
   listed |-> {},         \* what readdir returned
   todo |-> {},           \* entries whose remove() has not completed
   removed |-> {},        \* entries whose remove() has completed
   usedAtCall |-> {}]     \* _usedCacheKeys when cleanUnused() was called

\* No result is being taken through the codec, no keys are being derived
NoCodec == [result |-> NoResult, text |-> NoText, back |-> NoResult]
NoDerived == [pairs |-> << >>, keys |-> << >>]

Init ==
  /\ file \in {NoFile, [exists |-> TRUE, size |-> 1, mtime |-> 0, birth |-> 0]}
  /\ now = 0
  /\ disk = << >>
  /\ artifacts = {}
  /\ writer = << >>
  /\ inst = 1
  /\ ncalls = 0
  /\ cls \in Classes
  /\ dirEnsured = FALSE
  /\ usedCacheKeys = {}
  /\ currentlyRunningMap = << >>
  /\ calls = << >>
  /\ items = << >>
  /\ queue = << >>
  /\ flushes = << >>
  /\ cleaning = NotCleaning
  /\ thrown = << >>
  /\ dirEnsuredPromise = "pending"
  /\ codec = NoCodec
  /\ derived = NoDerived

----------------------------------------------------------------------------
(* The pipeline of one promise: the async function inside _run *)

\* Who wrote a record: the instance, its class, the derived input, the arguments
\* and what its own call went on with
Nobody == [inst |-> 0]
Writer(cr) == [inst |-> inst, version |-> cls.version,
               outputConsistency |-> cls.outputConsistency,
               input |-> cacheKeyFn(cls, cr.args), args |-> cr.args,
               base |-> cr.base]

\* The promise and pipeline state made by _run for a new cache key
NewCall(args, key, gate) ==
  [ args |-> args, key |-> key,
    gate |-> gate,                  \* blockRun: the queue item whose latch it awaits, or 0
    handles |-> 1,                  \* number of calls this promise was returned to
    pc |-> IF dirEnsured THEN "reading" ELSE "dirwait",
    born |-> now,                   \* file-system time when the call was made
    found |-> FALSE,                \* readFile returned a record
    foundBy |-> Nobody,             \* who wrote the record that was read
    stored |-> << >>,               \* observedFiles of the record that was read
    live |-> << >>,                 \* what stat returned for the record's observed file
    base |-> NoResult,              \* `result` before after() is applied to it
    result |-> NoResult,            \* the local variable `result`
    wtext |-> NoText,               \* text handed to writeFileAtomic
    wrote |-> "none",               \* wroteToCache: none, pending, done, failed
    log |-> << >>,                  \* events emitted, run() and after() started
    observed |-> << >>,             \* what observe() returned, and whether the file existed
    settledAt |-> 0,                \* 0 while pending, else its rank among settled promises
    outcome |-> [state |-> "pending", value |-> Undef] ]

Remove(map, key) == [k \in DOMAIN map \ {key} |-> map[k]]

\* Number of promises of this instance that have settled
NSettled == Cardinality({c \in DOMAIN calls : calls[c].outcome.state # "pending"})

\* The async function throws: the promise rejects, nothing else is done
Thrown(cr, reason) ==
  [cr EXCEPT !.pc = "failed", !.settledAt = NSettled + 1,
             !.outcome = [state |-> "rejected", value |-> reason]]

\* return result.value / Promise.reject(result.reason)
Settled(cr) ==
  [cr EXCEPT !.pc = "done", !.settledAt = NSettled + 1,
             !.outcome = [state |-> cr.result.state,
                          value |-> IF cr.result.state = "fulfilled"
                                    THEN cr.result.value ELSE cr.result.reason]]

\* Continue as it would be if after() were not called on a cache hit
ContinueHitSkipsAfter(cr) ==
  IF cr.result.state # "none" THEN Settled(cr)
  ELSE [cr EXCEPT !.pc = "running", !.log = Append(@, "run")]

\* _run after `await blockRun`: the hit branch up to its await or return, or
\* the miss branch up to the call of run()
Continue(cr) ==
  IF cr.result.state # "none"
  THEN IF cr.result.state = "fulfilled" /\ cls.after
       THEN [cr EXCEPT !.pc = "afterHit", !.log = Append(@, "after")]
       ELSE Settled(cr)
  ELSE [cr EXCEPT !.pc = "running", !.log = Append(@, "run")]

\* eventEmitter.emit('checkedCache', { cacheHit }); emit('cacheHit' / 'cacheMiss')
Emit(cr) ==
  LET cacheHit == cr.result.state # "none"
  IN [cr EXCEPT !.log = @ \o <<IF cacheHit THEN "checkedCache:true"
                                          ELSE "checkedCache:false",
                               IF cacheHit THEN "cacheHit" ELSE "cacheMiss">>]

\* enqueue's listener: ({ cacheHit }) => { setCacheCheckResult(cacheHit) }
Listeners(c, cacheHit) ==
  [i \in DOMAIN items |->
     IF items[i].promise = c /\ items[i].checked = "pending"
     THEN [items[i] EXCEPT !.checked = IF cacheHit THEN "hit" ELSE "miss"]
     ELSE items[i]]

\* PromiseAll as it would be if Promise.all of no promises never settled
PromiseAllNeverEmpty(ps, first) ==
  IF DOMAIN ps = {}
  THEN [state |-> "pending", value |-> Undef]
  ELSE IF first \in DOMAIN ps /\ ps[first].outcome.state = "rejected"
       THEN [state |-> "rejected", value |-> ps[first].outcome.value]
       ELSE IF \A j \in DOMAIN ps : ps[j].outcome.state = "fulfilled"
            THEN [state |-> "fulfilled",
                  value |-> [j \in DOMAIN ps |-> ps[j].outcome.value]]
            ELSE [state |-> "pending", value |-> Undef]

\* Promise.all(queue.map(item => item.promise)) of flush, case 'all', given
\* the promises ps of the items: it rejects with the reason of `first` if
\* that promise has rejected, fulfils with all values once all have fulfilled
PromiseAll(ps, first) ==
  IF first \in DOMAIN ps /\ ps[first].outcome.state = "rejected"
  THEN [state |-> "rejected", value |-> ps[first].outcome.value]
  ELSE IF \A j \in DOMAIN ps : ps[j].outcome.state = "fulfilled"
       THEN [state |-> "fulfilled", value |-> [j \in DOMAIN ps |-> ps[j].outcome.value]]
       ELSE [state |-> "pending", value |-> Undef]

\* PromiseAllSettled as it would be if the promises were not mapped first
PromiseAllSettledFailFast(ps) ==
  IF \E j \in DOMAIN ps : ps[j].outcome.state = "rejected"
  THEN [state |-> "rejected",
        value |-> ps[CHOOSE j \in DOMAIN ps : ps[j].outcome.state = "rejected"].outcome.value]
  ELSE IF \A j \in DOMAIN ps : ps[j].outcome.state = "fulfilled"
       THEN [state |-> "fulfilled", value |-> [j \in DOMAIN ps |-> ps[j].outcome.value]]
       ELSE [state |-> "pending", value |-> Undef]

\* flush, case 'allSettled': every promise is mapped to a tagged object first
PromiseAllSettled(ps) ==
  IF \A j \in DOMAIN ps : ps[j].outcome.state # "pending"
  THEN [state |-> "fulfilled",
        value |-> [j \in DOMAIN ps |->
                     IF ps[j].outcome.state = "fulfilled"
                     THEN [value |-> ps[j].outcome.value, state |-> "fulfilled"]
                     ELSE [reason |-> ps[j].outcome.value, state |-> "rejected"]]]
  ELSE [state |-> "pending", value |-> Undef]

\* The promises of the items of a queue, promise c being in state cr
PromisesOf(q, c, cr) ==
  [j \in DOMAIN q |-> IF items[q[j]].promise = c THEN cr ELSE calls[items[q[j]].promise]]

\* Promise c settles as cr: the reactions of the pending promises flush returned
React(c, cr) ==
  [f \in DOMAIN flushes |->
     LET fl == flushes[f]
         ps == PromisesOf(fl.queue, c, cr)
         mine == {j \in DOMAIN ps : items[fl.queue[j]].promise = c}
     IN IF fl.all.state # "pending" \/ mine = {} \/ cr.outcome.state = "pending"
        THEN fl
        ELSE [fl EXCEPT !.all =
                IF fl.promise = "all"
                THEN PromiseAll(ps, CHOOSE j \in mine : TRUE)
                ELSE PromiseAllSettled(ps)]]

\* _run from the end of the cache check (cacheHit is known) to the next await
CheckDone(c, cr) ==
  LET cr1 == [Emit(cr) EXCEPT !.base = cr.result]
      cr2 == IF cr.gate # 0 THEN [cr1 EXCEPT !.pc = "gated"] ELSE Continue(cr1)
  IN /\ calls' = [calls EXCEPT ![c] = cr2]
     /\ items' = Listeners(c, cr.result.state # "none")
     /\ flushes' = React(c, cr2)
     /\ currentlyRunningMap' = IF cr2.pc = "done"
                               THEN Remove(currentlyRunningMap, cr.key)
                               ELSE currentlyRunningMap

\* DirWaitDone as it would be if the pipeline did not wait for the promise
DirWaitDoneAtOnce(c) ==
  /\ calls[c].pc = "dirwait"
  /\ calls' = [calls EXCEPT ![c].pc = "reading"]
  /\ UNCHANGED <<file, now, disk, artifacts, writer, inst, ncalls, cls, dirEnsured,
                 usedCacheKeys, currentlyRunningMap, items, queue, flushes,
                 cleaning, thrown, dirEnsuredPromise,
                 codec, derived>>

\* `await this._dirEnsuredPromise` completes for a waiting pipeline: it starts
\* readFile, or the async function throws what ensureDir failed with
DirWaitDone(c) ==
  /\ calls[c].pc = "dirwait"
  /\ dirEnsuredPromise # "pending"
  /\ IF dirEnsuredPromise = "fulfilled"
     THEN /\ calls' = [calls EXCEPT ![c].pc = "reading"]
          /\ UNCHANGED flushes
     ELSE /\ calls' = [calls EXCEPT ![c] = Thrown(calls[c], ErrorObj("EACCES", TRUE))]
          /\ flushes' = React(c, calls'[c])
  /\ UNCHANGED <<file, now, disk, artifacts, writer, inst, ncalls, cls, dirEnsured,
                 usedCacheKeys, currentlyRunningMap, items, queue,
                 cleaning, thrown, dirEnsuredPromise,
                 codec, derived>>

\* readFile(path + '.json') completes
ReadDone(c) ==
  /\ calls[c].pc = "reading"
  /\ LET cr == calls[c]
         found == cr.key \in DOMAIN disk
         res == IF found THEN deserializeResult(disk[cr.key]) ELSE NoResult
         cr1 == [cr EXCEPT !.result = res, !.found = found,
                           !.stored = res.observedFiles,
                           !.foundBy = IF found THEN writer[cr.key] ELSE Nobody]
     IN IF found /\ res.observedFiles # << >>
        THEN /\ calls' = [calls EXCEPT ![c] = [cr1 EXCEPT !.pc = "validating"]]
             /\ UNCHANGED <<items, currentlyRunningMap, flushes>>
        ELSE CheckDone(c, cr1)
  /\ UNCHANGED <<file, now, disk, artifacts, writer, inst, ncalls, cls, dirEnsured,
                 usedCacheKeys, queue, cleaning, thrown, dirEnsuredPromise,
                 codec, derived>>

\* Validate as it would be if a record found stale were removed from disk
ValidateRemovesStale(c) ==
  /\ calls[c].pc = "validating"
  /\ LET cr == [calls[c] EXCEPT !.live = <<file>>]
         changed == file.exists /\ detectChanges(cr.result.observedFiles, file)
     IN /\ IF ~file.exists
           THEN /\ calls' = [calls EXCEPT ![c] = Thrown(cr, ErrorObj("ENOENT", TRUE))]
                /\ flushes' = React(c, calls'[c])
                /\ UNCHANGED <<items, currentlyRunningMap>>
           ELSE CheckDone(c, [cr EXCEPT !.result =
                                IF changed THEN NoResult ELSE cr.result])
        /\ disk' = IF changed THEN Remove(disk, cr.key) ELSE disk
        /\ writer' = IF changed THEN Remove(writer, cr.key) ELSE writer
  /\ UNCHANGED <<file, now, artifacts, inst, ncalls, cls, dirEnsured,
                 usedCacheKeys, queue, cleaning, thrown, dirEnsuredPromise,
                 codec, derived>>

\* detectChanges completes: the stat of the observed file has returned
Validate(c) ==
  /\ calls[c].pc = "validating"
  /\ LET cr == [calls[c] EXCEPT !.live = <<file>>]
     IN IF ~file.exists
        THEN \* stat rejects, detectChanges rejects, the async function throws
             /\ calls' = [calls EXCEPT ![c] = Thrown(cr, ErrorObj("ENOENT", TRUE))]
             /\ flushes' = React(c, calls'[c])
             /\ UNCHANGED <<items, currentlyRunningMap>>
        ELSE CheckDone(c, [cr EXCEPT !.result =
                             IF detectChanges(cr.result.observedFiles, file)
                             THEN NoResult ELSE cr.result])
  /\ UNCHANGED <<file, now, disk, artifacts, writer, inst, ncalls, cls, dirEnsured,
                 usedCacheKeys, queue, cleaning, thrown, dirEnsuredPromise,
                 codec, derived>>

\* blockRun resolves: the item's continueRunning() has been called
GateOpen(c) ==
  /\ calls[c].pc = "gated"
  /\ items[calls[c].gate].released
  /\ LET cr2 == Continue(calls[c])
     IN /\ calls' = [calls EXCEPT ![c] = cr2]
        /\ flushes' = React(c, cr2)
        /\ currentlyRunningMap' = IF cr2.pc = "done"
                                  THEN Remove(currentlyRunningMap, cr2.key)
                                  ELSE currentlyRunningMap
  /\ UNCHANGED <<file, now, disk, artifacts, writer, inst, ncalls, cls, dirEnsured,
                 usedCacheKeys, items, queue, cleaning, thrown, dirEnsuredPromise,
                 codec, derived>>

\* fileFingerprint(path) as a promise: stat rejects when the file is absent
FingerprintPromise(st) ==
  IF st.exists THEN [state |-> "fulfilled", value |-> fileFingerprint(st)]
  ELSE [state |-> "rejected", value |-> ErrorObj("ENOENT", TRUE)]

\* observe as it would be without `.catch(() => {})`
observeNoCatch(path, st) ==
  LET fp == FingerprintPromise(st)
  IN [returned |-> path,
      promise |-> IF fp.state = "fulfilled"
                  THEN [state |-> "fulfilled",
                        value |-> [path |-> path, fingerprint |-> fp.value]]
                  ELSE fp]

\* callRunFn: context.observe(path).  It returns its argument; the promise it
\* pushes resolves to { path, fingerprint }, or to undefined if stat failed
observe(path, st) ==
  LET fp == FingerprintPromise(st)
  IN [returned |-> path,
      promise |-> IF fp.state = "fulfilled"
                  THEN [state |-> "fulfilled",
                        value |-> [path |-> path, fingerprint |-> fp.value]]
                  ELSE [state |-> "fulfilled", value |-> Undef]]

\* callRunFn: (await Promise.all(observedFilePromises)).filter(x => x), for
\* the one path "F" that run() may observe
ObservedFiles(args, st) ==
  IF ~Observes(args) THEN [state |-> "fulfilled", value |-> << >>]
  ELSE LET p == observe("F", st).promise
       IN IF p.state = "rejected" THEN p
          ELSE [state |-> "fulfilled",
                value |-> IF p.value = Undef THEN << >> ELSE <<p.value>>]

\* Consistent as it would be if the fresh result were never decoded
ConsistentNever(k, text, result) == result

\* _run: if (this.constructor.outputConsistency) { result = deserializeResult(text) }
Consistent(k, text, result) ==
  IF k.outputConsistency THEN deserializeResult(text) ELSE result

\* callRunFn returns (run() and the stat of the observed file have completed);
\* _run serializes, starts the write, decodes and calls after()
RunDone(c) ==
  /\ calls[c].pc = "running"
  /\ LET cr == [calls[c] EXCEPT !.observed =
                  IF Observes(calls[c].args)
                  THEN <<[returned |-> observe("F", file).returned,
                          existed |-> file.exists]>>
                  ELSE << >>]
         ran == RunFn(cr.args)
         obs == ObservedFiles(cr.args, file)
         result == [state |-> ran.state, value |-> ran.value, reason |-> ran.reason,
                    observedFiles |-> obs.value]
         text == serializeResult(result)
         res == Consistent(cls, text, result)
         cr1 == [cr EXCEPT !.result = res, !.base = res, !.wtext = text,
                           !.wrote = "pending"]
         cr2 == IF obs.state = "rejected"
                THEN Thrown(cr, obs.value)   \* await Promise.all(...) throws
                ELSE IF res.state = "fulfilled" /\ cls.after
                     THEN [cr1 EXCEPT !.pc = "afterMiss", !.log = Append(@, "after")]
                     ELSE [cr1 EXCEPT !.pc = "writing"]
     IN /\ calls' = [calls EXCEPT ![c] = cr2]
        /\ flushes' = React(c, cr2)
  /\ artifacts' = IF WritesArtifact(calls[c].args)
                  THEN artifacts \cup {calls[c].key} ELSE artifacts
  /\ UNCHANGED <<file, now, disk, writer, inst, ncalls, cls, dirEnsured, usedCacheKeys,
                 currentlyRunningMap, items, queue, cleaning, thrown, dirEnsuredPromise,
                 codec, derived>>

\* AfterDone as it would be without `await wroteToCache`
AfterDoneNoAwait(c) ==
  /\ calls[c].pc \in {"afterHit", "afterMiss"}
  /\ LET cr == calls[c]
         a == AfterFn(cr.args, cr.result.value)
         cr2 == Settled([cr EXCEPT !.result =
                           [state |-> a.state, value |-> a.value,
                            reason |-> a.reason, observedFiles |-> << >>]])
     IN /\ calls' = [calls EXCEPT ![c] = cr2]
        /\ flushes' = React(c, cr2)
        /\ currentlyRunningMap' = Remove(currentlyRunningMap, cr.key)
  /\ UNCHANGED <<file, now, disk, artifacts, writer, inst, ncalls, cls, dirEnsured,
                 usedCacheKeys, items, queue, cleaning, thrown, dirEnsuredPromise,
                 codec, derived>>

\* callAfterFn returns
AfterDone(c) ==
  /\ calls[c].pc \in {"afterHit", "afterMiss"}
  /\ LET cr == calls[c]
         a == AfterFn(cr.args, cr.result.value)
         cr1 == [cr EXCEPT !.result = [state |-> a.state, value |-> a.value,
                                       reason |-> a.reason, observedFiles |-> << >>]]
         cr2 == IF cr.pc = "afterHit" \/ cr.wrote = "done" THEN Settled(cr1)
                ELSE IF cr.wrote = "failed"     \* await wroteToCache throws
                     THEN Thrown(cr1, ErrorObj("ENOSPC", TRUE))
                     ELSE [cr1 EXCEPT !.pc = "writing"]
     IN /\ calls' = [calls EXCEPT ![c] = cr2]
        /\ flushes' = React(c, cr2)
        /\ currentlyRunningMap' = IF cr2.pc = "done"
                                  THEN Remove(currentlyRunningMap, cr.key)
                                  ELSE currentlyRunningMap
  /\ UNCHANGED <<file, now, disk, artifacts, writer, inst, ncalls, cls, dirEnsured,
                 usedCacheKeys, items, queue, cleaning, thrown, dirEnsuredPromise,
                 codec, derived>>

\* writeFileAtomic completes: the record replaces the old one in one step;
\* a pipeline already at `await wroteToCache` settles
WriteDone(c) ==
  /\ calls[c].wrote = "pending"
  /\ disk' = [k \in DOMAIN disk \cup {calls[c].key} |->
                IF k = calls[c].key THEN calls[c].wtext ELSE disk[k]]
  /\ writer' = [k \in DOMAIN disk \cup {calls[c].key} |->
                  IF k = calls[c].key THEN Writer(calls[c]) ELSE writer[k]]
  /\ LET cr1 == [calls[c] EXCEPT !.wrote = "done"]
         cr2 == IF cr1.pc = "writing" THEN Settled(cr1) ELSE cr1
     IN /\ calls' = [calls EXCEPT ![c] = cr2]
        /\ flushes' = React(c, cr2)
        /\ currentlyRunningMap' = IF cr2.pc = "done"
                                  THEN Remove(currentlyRunningMap, cr2.key)
                                  ELSE currentlyRunningMap
  /\ UNCHANGED <<file, now, artifacts, inst, ncalls, cls, dirEnsured, usedCacheKeys,
                 items, queue, cleaning, thrown, dirEnsuredPromise,
                 codec, derived>>

\* WriteFailed as it would be if the error of the write were dropped
WriteFailedSilently(c) ==
  /\ calls[c].wrote = "pending"
  /\ LET cr1 == [calls[c] EXCEPT !.wrote = "failed"]
         cr2 == IF cr1.pc = "writing" THEN Settled(cr1) ELSE cr1
     IN /\ calls' = [calls EXCEPT ![c] = cr2]
        /\ flushes' = React(c, cr2)
        /\ currentlyRunningMap' = IF cr2.pc = "done"
                                  THEN Remove(currentlyRunningMap, cr2.key)
                                  ELSE currentlyRunningMap
  /\ UNCHANGED <<file, now, disk, artifacts, writer, inst, ncalls, cls, dirEnsured,
                 usedCacheKeys, items, queue, cleaning, thrown, dirEnsuredPromise,
                 codec, derived>>

\* writeFileAtomic fails (disk full, permission denied): it calls back with
\* the error and the file "<key>.json" is left as it was; a pipeline already
\* at `await wroteToCache` throws
WriteFailed(c) ==
  /\ calls[c].wrote = "pending"
  /\ LET cr1 == [calls[c] EXCEPT !.wrote = "failed"]
         cr2 == IF cr1.pc = "writing" THEN Thrown(cr1, ErrorObj("ENOSPC", TRUE))
                ELSE cr1
     IN /\ calls' = [calls EXCEPT ![c] = cr2]
        /\ flushes' = React(c, cr2)
  /\ UNCHANGED <<file, now, disk, artifacts, writer, inst, ncalls, cls, dirEnsured,
                 usedCacheKeys, currentlyRunningMap, items, queue, cleaning, thrown,
                 dirEnsuredPromise,
                 codec, derived>>

----------------------------------------------------------------------------
(* The API of an instance *)

\* The error _run throws for an invalid version, and the call it went to
VersionError(direct) ==
  [error |-> ErrorObj("version must be a string or number", TRUE),
   from |-> IF direct THEN "call" ELSE "enqueue"]

\* Run as it would be without the lookup in _currentlyRunningMap
RunNoLookup(args, direct) ==
  LET cacheKey == CacheKeyOf(cls, args)
      promise == Len(calls) + 1
      gate == IF direct THEN 0 ELSE Len(items) + 1
  IN /\ ncalls' = ncalls + 1
     /\ IF InvalidVersion(cls)
        THEN /\ thrown' = Append(thrown, VersionError(direct))
             /\ UNCHANGED <<usedCacheKeys, calls, currentlyRunningMap>>
        ELSE /\ usedCacheKeys' = usedCacheKeys \cup {cacheKey}
             /\ calls' = Append(calls, NewCall(args, cacheKey, gate))
             /\ currentlyRunningMap' =
                  [k \in DOMAIN currentlyRunningMap \cup {cacheKey} |->
                     IF k = cacheKey THEN promise ELSE currentlyRunningMap[k]]
             /\ UNCHANGED thrown

\* _run(args, blockRun) up to its return: the promise returned, as new state
Run(args, direct) ==
  LET cacheKey == CacheKeyOf(cls, args)
      running == cacheKey \in DOMAIN currentlyRunningMap
      promise == IF running THEN currentlyRunningMap[cacheKey] ELSE Len(calls) + 1
      gate == IF direct THEN 0 ELSE Len(items) + 1
  IN /\ ncalls' = ncalls + 1
     /\ IF InvalidVersion(cls)
        THEN \* throw new Error('CachedBuildFunction.version must be ...')
             /\ thrown' = Append(thrown, VersionError(direct))
             /\ UNCHANGED <<usedCacheKeys, calls, currentlyRunningMap>>
        ELSE /\ usedCacheKeys' = usedCacheKeys \cup {cacheKey}
             /\ IF running
                THEN /\ calls' = [calls EXCEPT ![promise].handles = @ + 1]
                     /\ UNCHANGED currentlyRunningMap
                ELSE /\ calls' = Append(calls, NewCall(args, cacheKey, gate))
                     /\ currentlyRunningMap' =
                          [k \in DOMAIN currentlyRunningMap \cup {cacheKey} |->
                             IF k = cacheKey THEN promise ELSE currentlyRunningMap[k]]
             /\ UNCHANGED thrown

\* myBuildFn(...args)
Call(args) ==
  /\ Run(args, TRUE)
  /\ UNCHANGED <<file, now, disk, artifacts, writer, inst, cls, dirEnsured, items,
                 queue, flushes, cleaning, dirEnsuredPromise,
                 codec, derived>>

\* enqueue(...args)
Enqueue(args) ==
  /\ Run(args, FALSE)
  /\ IF thrown' # thrown
     THEN UNCHANGED <<items, queue>>      \* _run threw: nothing is pushed
     ELSE LET cacheKey == CacheKeyOf(cls, args)
              item == [promise |-> currentlyRunningMap'[cacheKey],
                       checked |-> "pending",      \* the checkedCache promise
                       released |-> FALSE,         \* continueRunning() was called
                       discarded |-> FALSE]        \* clearQueue() dropped it
          IN /\ items' = Append(items, item)
             /\ queue' = Append(queue, Len(items) + 1)
  /\ UNCHANGED <<file, now, disk, artifacts, writer, inst, cls, dirEnsured, flushes,
                 cleaning, dirEnsuredPromise,
                 codec, derived>>

\* The values of options.promise: 'all' (the default), 'allSettled', false
PromiseTypes == {"all", "allSettled", "false"}

\* flush(options) up to its return.  Promise.all subscribes to the promises in
\* queue order, so among promises that have rejected already the first in the
\* queue decides
Flush(promiseType) ==
  /\ LET ps == PromisesOf(queue, 0, NoResult)
         rejected == {j \in DOMAIN ps : ps[j].outcome.state = "rejected"}
         first == IF rejected = {} THEN 0
                  ELSE CHOOSE j \in rejected : \A i \in rejected : j <= i
     IN flushes' = Append(flushes,
          [queue |-> queue, emitted |-> << >>, promise |-> promiseType,
           at |-> NSettled,
           all |-> CASE promiseType = "all" -> PromiseAll(ps, first)
                     [] promiseType = "allSettled" -> PromiseAllSettled(ps)
                     [] OTHER -> [state |-> "none", value |-> Undef]])
  /\ queue' = << >>
  /\ UNCHANGED <<file, now, disk, artifacts, writer, inst, ncalls, cls, dirEnsured,
                 usedCacheKeys, currentlyRunningMap, calls, items, cleaning,
                 thrown, dirEnsuredPromise,
                 codec, derived>>

\* flush: Promise.all(queue.map(item => item.checkedCache)).then(...)
FlushChecked(f) ==
  /\ flushes[f].emitted = << >>
  /\ \A i \in DOMAIN flushes[f].queue : items[flushes[f].queue[i]].checked # "pending"
  /\ LET q == flushes[f].queue
         count == Len(q)
         cacheHitCount == Cardinality({i \in DOMAIN q : items[q[i]].checked = "hit"})
         cacheMissCount == count - cacheHitCount
     IN flushes' = [flushes EXCEPT ![f].emitted =
          <<[count |-> count, cacheHitCount |-> cacheHitCount,
             cacheMissCount |-> cacheMissCount]>>]
  /\ items' = [i \in DOMAIN items |->
                 IF \E j \in DOMAIN flushes[f].queue : flushes[f].queue[j] = i
                 THEN [items[i] EXCEPT !.released = TRUE] ELSE items[i]]
  /\ UNCHANGED <<file, now, disk, artifacts, writer, inst, ncalls, cls, dirEnsured,
                 usedCacheKeys, currentlyRunningMap, calls, queue, cleaning,
                 thrown, dirEnsuredPromise,
                 codec, derived>>

\* get queuedCount ()
queuedCount == Len(queue)

\* ClearQueue as it would be if the items stayed in the queue
ClearQueueKeeps ==
  /\ items' = [i \in DOMAIN items |->
                 IF \E j \in DOMAIN queue : queue[j] = i
                 THEN [items[i] EXCEPT !.discarded = TRUE] ELSE items[i]]
  /\ UNCHANGED <<file, now, disk, artifacts, writer, inst, ncalls, cls, dirEnsured,
                 usedCacheKeys, currentlyRunningMap, calls, queue, flushes, cleaning,
                 thrown, dirEnsuredPromise, codec, derived>>

\* clearQueue()
ClearQueue ==
  /\ queue' = << >>
  /\ items' = [i \in DOMAIN items |->
                 IF \E j \in DOMAIN queue : queue[j] = i
                 THEN [items[i] EXCEPT !.discarded = TRUE] ELSE items[i]]
  /\ UNCHANGED <<file, now, disk, artifacts, writer, inst, ncalls, cls, dirEnsured,
                 usedCacheKeys, currentlyRunningMap, calls, flushes, cleaning,
                 thrown, dirEnsuredPromise,
                 codec, derived>>

\* The files of the cache folder by name: "<key>.json" and "<key>-out"
EntryName(key, sep) == [prefix |-> key, sep |-> sep]
Entries ==
  {EntryName(k, ".") : k \in DOMAIN disk} \cup {EntryName(k, "-") : k \in artifacts}

\* SplitKey as it would be if the name were split at '.' only
SplitKeyAtDot(entry) ==
  IF entry.sep = "." THEN entry.prefix ELSE [sha1 |-> <<"-">>]

\* entry.split(/\.|-/, 1)[0]: a hex digest holds neither '.' nor '-'
SplitKey(entry) == entry.prefix

\* Unused as it would be if the used-key set were ignored
UnusedAll(entries, used) == entries

\* Unused as it would be if only the result records were looked at
UnusedRecords(entries, used) ==
  {e \in entries : e.sep = "." /\ SplitKey(e) \notin used}

\* cleanUnused: the entries its map callback hands to remove()
Unused(entries, used) == {e \in entries : SplitKey(e) \notin used}

\* cleanUnused() up to its first await: readdir is started
CleanUnused ==
  /\ cleaning.pc = "idle"
  /\ cleaning' = [cleaning EXCEPT !.pc = "readdir", !.usedAtCall = usedCacheKeys]
  /\ UNCHANGED <<file, now, disk, artifacts, writer, inst, ncalls, cls, dirEnsured,
                 usedCacheKeys, currentlyRunningMap, calls, items, queue, flushes,
                 thrown, dirEnsuredPromise,
                 codec, derived>>

\* readdir completes; the entries whose key is not in _usedCacheKeys are
\* handed to remove().  While the folder holds nothing and ensureDir has not
\* finished the folder may not exist yet, and then readdir rejects
CleanReaddirDone ==
  /\ cleaning.pc = "readdir"
  /\ \E exists \in BOOLEAN :
       /\ (dirEnsured \/ Entries # {}) => exists
       /\ cleaning' =
            IF ~exists THEN [cleaning EXCEPT !.pc = "failed"]
            ELSE LET todo == Unused(Entries, usedCacheKeys)
                 IN [cleaning EXCEPT !.pc = IF todo = {} THEN "done" ELSE "removing",
                                     !.listed = Entries, !.todo = todo]
  /\ UNCHANGED <<file, now, disk, artifacts, writer, inst, ncalls, cls, dirEnsured,
                 usedCacheKeys, currentlyRunningMap, calls, items, queue, flushes,
                 thrown, dirEnsuredPromise,
                 codec, derived>>

\* remove(join(this._cachePath, entry)) completes for one entry; when the last
\* one has, the promise of cleanUnused resolves
CleanRemoveDone(e) ==
  /\ cleaning.pc = "removing"
  /\ e \in cleaning.todo
  /\ disk' = IF e.sep = "." THEN Remove(disk, e.prefix) ELSE disk
  /\ writer' = IF e.sep = "." THEN Remove(writer, e.prefix) ELSE writer
  /\ artifacts' = IF e.sep = "-" THEN artifacts \ {e.prefix} ELSE artifacts
  /\ cleaning' = [cleaning EXCEPT !.todo = @ \ {e}, !.removed = @ \cup {e},
                                  !.pc = IF cleaning.todo = {e} THEN "done" ELSE @]
  /\ UNCHANGED <<file, now, inst, ncalls, cls, dirEnsured, usedCacheKeys,
                 currentlyRunningMap, calls, items, queue, flushes, thrown, dirEnsuredPromise,
                 codec, derived>>

\* constructor: ensureDir(cachePath).then(() => self._dirEnsured = true)
DirEnsured ==
  /\ dirEnsuredPromise = "pending"
  /\ dirEnsured' = TRUE
  /\ dirEnsuredPromise' = "fulfilled"
  /\ UNCHANGED <<file, now, disk, artifacts, writer, inst, ncalls, cls, usedCacheKeys,
                 currentlyRunningMap, calls, items, queue, flushes, cleaning,
                 thrown, codec, derived>>

\* constructor: ensureDir(cachePath) fails; _dirEnsured stays false and
\* _dirEnsuredPromise rejects
DirFailed ==
  /\ dirEnsuredPromise = "pending"
  /\ dirEnsuredPromise' = "rejected"
  /\ UNCHANGED <<file, now, disk, artifacts, writer, inst, ncalls, cls, dirEnsured,
                 usedCacheKeys, currentlyRunningMap, calls, items, queue, flushes,
                 cleaning, thrown, codec, derived>>

\* new SomeClass({ cachePath }) on the same cache folder; the earlier instance
\* and its pending work are gone (another instance later on, or a restart)
NewInstance(k) ==
  /\ inst < MaxInstances
  /\ inst' = inst + 1
  /\ cls' = k
  /\ dirEnsured' = FALSE
  /\ usedCacheKeys' = {}
  /\ currentlyRunningMap' = << >>
  /\ calls' = << >>
  /\ items' = << >>
  /\ queue' = << >>
  /\ flushes' = << >>
  /\ cleaning' = NotCleaning
  /\ thrown' = << >>
  /\ dirEnsuredPromise' = "pending"
  /\ UNCHANGED <<file, now, disk, artifacts, writer, ncalls, codec, derived>>

----------------------------------------------------------------------------
(* The environment: other programs change the observed file *)

FileWrite ==
  /\ now < MaxFileOps
  /\ file.exists
  /\ now' = now + 1
  /\ file' = [file EXCEPT !.size = @ + 1, !.mtime = now + 1]
  /\ UNCHANGED <<disk, artifacts, writer, inst, ncalls, cls, dirEnsured, usedCacheKeys,
                 currentlyRunningMap, calls, items, queue, flushes, cleaning,
                 thrown, dirEnsuredPromise,
                 codec, derived>>

FileDelete ==
  /\ now < MaxFileOps
  /\ file.exists
  /\ now' = now + 1
  /\ file' = NoFile
  /\ UNCHANGED <<disk, artifacts, writer, inst, ncalls, cls, dirEnsured, usedCacheKeys,
                 currentlyRunningMap, calls, items, queue, flushes, cleaning,
                 thrown, dirEnsuredPromise,
                 codec, derived>>

FileCreate ==
  /\ now < MaxFileOps
  /\ ~file.exists
  /\ now' = now + 1
  /\ file' = [exists |-> TRUE, size |-> 1, mtime |-> now + 1, birth |-> now + 1]
  /\ UNCHANGED <<disk, artifacts, writer, inst, ncalls, cls, dirEnsured, usedCacheKeys,
                 currentlyRunningMap, calls, items, queue, flushes, cleaning,
                 thrown, dirEnsuredPromise,
                 codec, derived>>

----------------------------------------------------------------------------

\* What the event loop runs by itself: I/O completions and continuations
Pipeline ==
  \/ DirEnsured
  \/ \E c \in DOMAIN calls : DirWaitDone(c)
  \/ \E c \in DOMAIN calls : ReadDone(c)
  \/ \E c \in DOMAIN calls : Validate(c)
  \/ \E c \in DOMAIN calls : RunDone(c)
  \/ \E c \in DOMAIN calls : AfterDone(c)
  \/ \E c \in DOMAIN calls : WriteDone(c)

\* Direct calls on instances that follow one another on one cache folder, while
\* the observed file changes
\* cleanUnused() and the completions of its readdir and remove calls
Cleaning ==
  \/ CleanUnused
  \/ CleanReaddirDone
  \/ \E e \in cleaning.todo : CleanRemoveDone(e)

Next ==
  \/ \E args \in ArgsSet : ncalls < MaxCalls /\ Call(args)
  \/ \E k \in Classes : NewInstance(k)
  \/ Pipeline
  \/ Cleaning
  \/ FileWrite
  \/ FileDelete
  \/ FileCreate

Spec == Init /\ [][Next]_vars

\* Queue mode: one instance, direct calls and enqueue/flush/clearQueue
QueueClasses ==
  {k \in Classes : (k.version = Num(1) /\ k.outputConsistency) \/ k.version = Null}

\* One argument list whose run() fulfils and one whose run() throws
QueueArgs == {<<Num(1), Num(1)>>, <<Num(3), Num(1)>>}

QueueInit ==
  /\ Init
  /\ file.exists
  /\ cls \in QueueClasses

QueuePipeline ==
  \/ Pipeline
  \/ \E f \in DOMAIN flushes : FlushChecked(f)
  \/ \E c \in DOMAIN calls : GateOpen(c)

QueueNext ==
  \/ \E args \in QueueArgs : ncalls < MaxQueueCalls /\ Call(args)
  \/ \E args \in QueueArgs : ncalls < MaxQueueCalls /\ Enqueue(args)
  \/ \E promiseType \in PromiseTypes : Len(flushes) < MaxFlushes /\ Flush(promiseType)
  \/ ClearQueue
  \/ QueuePipeline

QueueSpec == QueueInit /\ [][QueueNext]_vars

\* Batch mode: fewer calls than in queue mode, and several flushes
BatchNext ==
  \/ \E args \in QueueArgs : ncalls < MaxBatchCalls /\ Call(args)
  \/ \E args \in QueueArgs : ncalls < MaxBatchCalls /\ Enqueue(args)
  \/ \E promiseType \in PromiseTypes :
       Len(flushes) < MaxBatchFlushes /\ Flush(promiseType)
  \/ ClearQueue
  \/ QueuePipeline

BatchSpec == QueueInit /\ [][BatchNext]_vars

\* Sweep mode: calls, enqueue and flush together with cleanUnused(), on
\* instances that share the cache folder
SweepNext ==
  \/ \E args \in QueueArgs : ncalls < MaxBatchCalls /\ Call(args)
  \/ \E args \in QueueArgs : ncalls < MaxBatchCalls /\ Enqueue(args)
  \/ \E promiseType \in PromiseTypes : Len(flushes) < MaxFlushes /\ Flush(promiseType)
  \/ \E k \in QueueClasses : NewInstance(k)
  \/ Cleaning
  \/ QueuePipeline

SweepSpec == QueueInit /\ [][SweepNext]_vars

\* The codec on its own: a result whose value or reason is a JSON value is
\* serialized, and the text deserialized
JSONValues ==
  { Num(0), Num(1), Str(<< >>), Str(<<"a">>), Bool(FALSE), Bool(TRUE), Null,
    Arr(<< >>), Arr(<<Num(0)>>), Arr(<<Str(<<"a">>), Null>>) }

ObservedFileLists ==
  { << >>,
    <<[path |-> "F", fingerprint |-> fileFingerprint(NoFile)]>>,
    <<[path |-> "F", fingerprint |-> <<"1", ",", "2", ",", "0">>],
      [path |-> "G", fingerprint |-> <<"5", ",", "1", ",", "1">>]>> }

CodecResults ==
  { [state |-> "fulfilled", value |-> v, reason |-> Undef, observedFiles |-> o] :
      v \in JSONValues, o \in ObservedFileLists }
  \cup
  { [state |-> "rejected", value |-> Undef, reason |-> v, observedFiles |-> o] :
      v \in JSONValues, o \in ObservedFileLists }

CodecInit ==
  /\ file = NoFile
  /\ now = 0
  /\ disk = << >>
  /\ artifacts = {}
  /\ writer = << >>
  /\ inst = 1
  /\ ncalls = 0
  /\ cls = Class(Num(1), "none", FALSE, TRUE)
  /\ dirEnsured = FALSE
  /\ usedCacheKeys = {}
  /\ currentlyRunningMap = << >>
  /\ calls = << >>
  /\ items = << >>
  /\ queue = << >>
  /\ flushes = << >>
  /\ cleaning = NotCleaning
  /\ thrown = << >>
  /\ dirEnsuredPromise = "pending"
  /\ derived = NoDerived
  /\ \E r \in CodecResults : codec = [result |-> r, text |-> NoText, back |-> NoResult]

\* text = serializeResult(result)
Serialize ==
  /\ codec.text = NoText
  /\ codec' = [codec EXCEPT !.text = serializeResult(codec.result)]
  /\ UNCHANGED <<file, now, disk, artifacts, writer, inst, ncalls, cls, dirEnsured,
                 usedCacheKeys, currentlyRunningMap, calls, items, queue, flushes,
                 cleaning, thrown, dirEnsuredPromise, derived>>

\* deserializeResult(text)
Deserialize ==
  /\ codec.text # NoText
  /\ codec.back = NoResult
  /\ codec' = [codec EXCEPT !.back = deserializeResult(codec.text)]
  /\ UNCHANGED <<file, now, disk, artifacts, writer, inst, ncalls, cls, dirEnsured,
                 usedCacheKeys, currentlyRunningMap, calls, items, queue, flushes,
                 cleaning, thrown, dirEnsuredPromise, derived>>

CodecNext ==
  \/ Serialize
  \/ Deserialize

CodecSpec == CodecInit /\ [][CodecNext]_vars

\* Storage faults: the cache folder cannot be created, a record cannot be
\* written
Faults ==
  \/ DirFailed
  \/ \E c \in DOMAIN calls : WriteFailed(c)

\* Direct calls on one instance whose storage may fail, while the observed file
\* changes
FaultNext ==
  \/ \E args \in ArgsSet : ncalls < MaxCalls /\ Call(args)
  \/ Pipeline
  \/ Faults
  \/ FileWrite
  \/ FileDelete
  \/ FileCreate

FaultSpec == Init /\ [][FaultNext]_vars

----------------------------------------------------------------------------
(* Vocabulary of the properties *)

RunCount(cr) == Cardinality({i \in DOMAIN cr.log : cr.log[i] = "run"})
HasChecked(cr) == cr.log # << >>
IsHit(cr) == HasChecked(cr) /\ cr.log[1] = "checkedCache:true"
IsMiss(cr) == HasChecked(cr) /\ cr.log[1] = "checkedCache:false"
HasSettled(cr) == cr.outcome.state # "pending"

\* Every fingerprint stored in the record that was read equals the fingerprint
\* the observed file had when the pipeline looked at it
Unchanged(cr) ==
  \A i \in DOMAIN cr.stored :
    /\ cr.live # << >>
    /\ cr.live[1].exists
    /\ fileFingerprint(cr.live[1]) = cr.stored[i].fingerprint

\* The promise of the j-th item a flush took, and when the promise flush
\* returned saw it settle: promises settled before the flush come first, in
\* queue order
ItemPromise(f, j) == calls[items[flushes[f].queue[j]].promise]
SeenAt(f, j) ==
  IF ItemPromise(f, j).settledAt <= flushes[f].at
  THEN j ELSE Len(flushes[f].queue) + ItemPromise(f, j).settledAt

\* The pipeline is executing: its async function has not returned or thrown,
\* or its write is under way
Executing(cr) == ~HasSettled(cr) \/ cr.wrote = "pending"

\* after() was called in the pipeline, and how often
AfterCount(cr) == Cardinality({i \in DOMAIN cr.log : cr.log[i] = "after"})
Invoked(cr) == AfterCount(cr) > 0

\* What a value looks like once it has been through the record
Decoded(v) == FromJSON(ToJSON(v))

\* What a call settles with when it goes on with result r
OutcomeOf(r, args) ==
  IF r.state = "fulfilled"
  THEN IF cls.after
       THEN LET a == AfterFn(args, r.value)
            IN [state |-> a.state,
                value |-> IF a.state = "fulfilled" THEN a.value ELSE a.reason]
       ELSE [state |-> "fulfilled", value |-> r.value]
  ELSE [state |-> "rejected", value |-> r.reason]

----------------------------------------------------------------------------
(* Key derivation alone: the strings handed to sha1 for two pairs of a version *)
(* and a value returned by the static cacheKey function                        *)

MaxDerivations == 2

KeyVersions == { Num(1), Num(2), Str(<<"1">>), Str(<<"1", ",", "2">>) }

KeyInputs == { Num(1), Str(<<"1">>), Str(<<"3">>), Str(<<"2", ",", "3">>),
               Arr(<<Num(1)>>), Arr(<<Num(1), Num(2)>>) }

KeyInit ==
  /\ file = NoFile
  /\ now = 0
  /\ disk = << >>
  /\ artifacts = {}
  /\ writer = << >>
  /\ inst = 1
  /\ ncalls = 0
  /\ cls = Class(Num(1), "none", FALSE, TRUE)
  /\ dirEnsured = FALSE
  /\ usedCacheKeys = {}
  /\ currentlyRunningMap = << >>
  /\ calls = << >>
  /\ items = << >>
  /\ queue = << >>
  /\ flushes = << >>
  /\ cleaning = NotCleaning
  /\ thrown = << >>
  /\ dirEnsuredPromise = "pending"
  /\ codec = NoCodec
  /\ derived = NoDerived

\* _run up to the computation of cacheKey, for a class of this version whose
\* cacheKey function returns h
Derive(version, h) ==
  /\ Len(derived.pairs) < MaxDerivations
  /\ derived' = [pairs |-> Append(derived.pairs, [version |-> version, input |-> h]),
                 keys |-> Append(derived.keys, PreHash(version, h))]
  /\ UNCHANGED <<file, now, disk, artifacts, writer, inst, ncalls, cls, dirEnsured,
                 usedCacheKeys, currentlyRunningMap, calls, items, queue, flushes,
                 cleaning, thrown, dirEnsuredPromise, codec>>

KeyNext == \E version \in KeyVersions : \E h \in KeyInputs : Derive(version, h)

KeySpec == KeyInit /\ [][KeyNext]_vars

----------------------------------------------------------------------------
(* C1: single-flight.  A call whose cache key has a pipeline that has not      *)
(* settled makes no new pipeline: it gets the promise the registry holds,      *)
(* which is that pipeline's; so no two pipelines of one key are ever pending   *)
(* together, and a promise, however many calls share it, runs compute at most  *)
(* once, and exactly once when its lookup was a miss and it has settled.       *)
C1_SingleFlight ==
  /\ \A c1, c2 \in DOMAIN calls :
       c1 < c2 /\ calls[c1].key = calls[c2].key => HasSettled(calls[c1])
  /\ \A c \in DOMAIN calls :
       /\ ~HasSettled(calls[c]) =>
            /\ calls[c].key \in DOMAIN currentlyRunningMap
            /\ currentlyRunningMap[calls[c].key] = c
       /\ RunCount(calls[c]) <= 1
       /\ calls[c].pc = "done" /\ IsMiss(calls[c]) => RunCount(calls[c]) = 1

\* Two calls got one promise, which ran compute once and has settled
C1_Witness ==
  \E c \in DOMAIN calls :
    /\ calls[c].handles = 2
    /\ calls[c].pc = "done"
    /\ RunCount(calls[c]) = 1

----------------------------------------------------------------------------
----------------------------------------------------------------------------
(* C3: persistence across instances.  A record written by an earlier instance  *)
(* with the same version for the same derived input is the record a call of    *)
(* the current instance reads; when the record's observed file is unchanged    *)
(* the call is a cache hit, runs no compute and settles with what the stored   *)
(* record holds (passed through after() if the class has one).                 *)
C3_Persistence ==
  \A c \in DOMAIN calls : \A k \in DOMAIN disk :
    ( /\ calls[c].pc \notin {"dirwait", "reading"}
      /\ writer[k].inst < inst
      /\ writer[k].version = cls.version
      /\ writer[k].input = cacheKeyFn(cls, calls[c].args) )
    => /\ calls[c].key = k
       /\ calls[c].found
       /\ calls[c].foundBy = writer[k]
       /\ calls[c].pc # "validating" /\ Unchanged(calls[c]) =>
            /\ IsHit(calls[c])
            /\ RunCount(calls[c]) = 0
            /\ calls[c].pc = "done" =>
                 calls[c].outcome =
                   OutcomeOf(deserializeResult(disk[k]), calls[c].args)

\* A call on a second instance resolved, without compute, to the value that a
\* call on the first instance had computed from the observed file and stored
C3_Witness ==
  \E c \in DOMAIN calls :
    /\ calls[c].pc = "done"
    /\ calls[c].foundBy.inst = 1
    /\ inst = 2
    /\ calls[c].foundBy.version = cls.version
    /\ calls[c].stored # << >>
    /\ IsHit(calls[c])
    /\ RunCount(calls[c]) = 0
    /\ calls[c].outcome = [state |-> "fulfilled", value |-> Num(3)]

----------------------------------------------------------------------------
(* C4: version sensitivity.  A call is never a cache hit on a record that was  *)
(* written for the same arguments under a different version.                   *)
C4_VersionSensitivity ==
  \A c \in DOMAIN calls :
    ( /\ calls[c].found
      /\ calls[c].foundBy.version # cls.version
      /\ calls[c].foundBy.args = calls[c].args )
    => ~IsHit(calls[c])

----------------------------------------------------------------------------
(* C5: fingerprint sensitivity.  A lookup is a hit exactly when a record was   *)
(* read and every fingerprint stored in it equals the observed file's          *)
(* fingerprint at the lookup; a hit runs no compute and a miss runs it once,   *)
(* so of two calls made one after the other the second runs compute again if   *)
(* the file's size or timestamps changed in between, and not if untouched.     *)
C5_FingerprintSensitivity ==
  \A c \in DOMAIN calls :
    HasChecked(calls[c]) =>
      /\ IsHit(calls[c]) <=> (calls[c].found /\ Unchanged(calls[c]))
      /\ IsHit(calls[c]) => RunCount(calls[c]) = 0
      /\ IsMiss(calls[c]) /\ calls[c].pc # "gated" => RunCount(calls[c]) = 1

\* The second of two calls found the record of the first, made when the file
\* had another fingerprint, and ran compute again
C5_Witness ==
  \E c1, c2 \in DOMAIN calls :
    /\ c1 < c2
    /\ calls[c1].key = calls[c2].key
    /\ RunCount(calls[c1]) = 1
    /\ calls[c2].found
    /\ calls[c2].stored = calls[c1].base.observedFiles
    /\ calls[c2].stored # << >>
    /\ calls[c2].live # << >>
    /\ calls[c2].live[1].exists
    /\ RunCount(calls[c2]) = 1
    /\ calls[c2].pc = "done"

----------------------------------------------------------------------------
(* C6: failure memoization.  When compute throws, the call rejects and a       *)
(* rejected record is on disk once it has settled; a later call that hits a    *)
(* rejected record runs no compute and rejects with the reason decoded from    *)
(* the record, which for an Error carries the message compute threw.  The      *)
(* record stays on disk until cleanUnused removes it.                          *)
C6_FailureMemoization ==
  \A c \in DOMAIN calls :
    /\ ( /\ HasSettled(calls[c])
         /\ RunCount(calls[c]) = 1
         /\ RunFn(calls[c].args).state = "rejected" )
       => /\ calls[c].outcome.state = "rejected"
          /\ IF calls[c].key \in DOMAIN disk
             THEN disk[calls[c].key].state = "rejected"
             ELSE EntryName(calls[c].key, ".") \in cleaning.removed
    /\ ( /\ IsHit(calls[c])
         /\ calls[c].base.state = "rejected" )
       => /\ RunCount(calls[c]) = 0
          /\ IF calls[c].key \in DOMAIN disk
             THEN calls[c].base.reason =
                    deserializeResult(disk[calls[c].key]).reason
             ELSE EntryName(calls[c].key, ".") \in cleaning.removed
          /\ calls[c].base.reason =
               ErrorObj(RunFn(calls[c].args).reason.message, FALSE)
          /\ HasSettled(calls[c]) =>
               calls[c].outcome = [state |-> "rejected",
                                   value |-> calls[c].base.reason]

\* Compute threw in the first call, which rejected; the second call was a hit,
\* ran no compute and rejected with the decoded Error
C6_Witness ==
  \E c1, c2 \in DOMAIN calls :
    /\ c1 < c2
    /\ calls[c1].key = calls[c2].key
    /\ RunCount(calls[c1]) = 1
    /\ calls[c1].outcome.state = "rejected"
    /\ IsHit(calls[c2])
    /\ RunCount(calls[c2]) = 0
    /\ calls[c2].pc = "done"
    /\ calls[c2].outcome = [state |-> "rejected", value |-> ErrorObj("boom", FALSE)]

----------------------------------------------------------------------------
(* C7: output consistency.  For a record written by a class with               *)
(* outputConsistency enabled, the result a cache hit goes on with (the value   *)
(* handed to after(), or the value or reason the call settles with) equals     *)
(* the result the call that computed and wrote the record went on with; so on  *)
(* one instance the hit settles with what the fresh call of the same           *)
(* arguments settled with.                                                     *)
C7_OutputConsistency ==
  /\ \A c \in DOMAIN calls :
       IsHit(calls[c]) /\ calls[c].foundBy.outputConsistency
         => calls[c].base = calls[c].foundBy.base
  /\ \A c1, c2 \in DOMAIN calls :
       ( /\ cls.outputConsistency
         /\ c1 < c2
         /\ calls[c1].key = calls[c2].key
         /\ calls[c1].args = calls[c2].args
         /\ RunCount(calls[c1]) = 1
         /\ calls[c1].pc = "done"
         /\ calls[c2].foundBy.inst = inst
         /\ calls[c2].foundBy.base = calls[c1].base
         /\ IsHit(calls[c2])
         /\ calls[c2].pc = "done" )
       => calls[c2].outcome = calls[c1].outcome

\* Compute returned NaN, which is not a JSON value; the fresh call and the
\* later cache hit both resolved to null
C7_Witness ==
  \E c1, c2 \in DOMAIN calls :
    /\ cls.outputConsistency
    /\ c1 < c2
    /\ calls[c1].key = calls[c2].key
    /\ RunCount(calls[c1]) = 1
    /\ RunFn(calls[c1].args).value = NaN
    /\ calls[c1].outcome = [state |-> "fulfilled", value |-> Null]
    /\ IsHit(calls[c2])
    /\ calls[c2].pc = "done"
    /\ calls[c2].outcome = calls[c1].outcome

----------------------------------------------------------------------------
(* C8: per-call events.  Every pipeline that has settled has emitted           *)
(* 'checkedCache' exactly once, with cacheHit equal to the outcome of the      *)
(* lookup, then exactly one of 'cacheHit' and 'cacheMiss' accordingly, and     *)
(* only after them has compute or after() started.                             *)
C8_PerCallEvents ==
  \A c \in DOMAIN calls :
    /\ HasSettled(calls[c]) => HasChecked(calls[c])
    /\ HasChecked(calls[c]) =>
         /\ Len(calls[c].log) >= 2
         /\ calls[c].log[1] \in {"checkedCache:true", "checkedCache:false"}
         /\ calls[c].log[1] = "checkedCache:true"
              <=> (calls[c].found /\ Unchanged(calls[c]))
         /\ calls[c].log[2] = IF calls[c].log[1] = "checkedCache:true"
                              THEN "cacheHit" ELSE "cacheMiss"
         /\ \A i \in DOMAIN calls[c].log : i > 2 => calls[c].log[i] \in {"run", "after"}

----------------------------------------------------------------------------
(* C9: batch gating.  For every item made by enqueue() whose cache check was   *)
(* a miss, compute has not begun unless a flush() has taken the item.          *)
C9_BatchGating ==
  \A i \in DOMAIN items :
    items[i].checked = "miss" /\ RunCount(calls[items[i].promise]) > 0
      => \E f \in DOMAIN flushes : \E j \in DOMAIN flushes[f].queue :
           flushes[f].queue[j] = i

----------------------------------------------------------------------------
(* C10: batch statistics.  Every flush() emits exactly one aggregate           *)
(* 'checkedCache' event (it has done so once the event loop has nothing left  *)
(* to run), with count the number of items it took, cacheHitCount the number   *)
(* of them whose cache check was a hit, cacheMissCount the number whose cache  *)
(* check was a miss, and cacheHitCount + cacheMissCount = count.               *)
C10_BatchStatistics ==
  \A f \in DOMAIN flushes :
    /\ Len(flushes[f].emitted) <= 1
    /\ ~(ENABLED QueuePipeline) => Len(flushes[f].emitted) = 1
    /\ flushes[f].emitted # << >> =>
         LET q == flushes[f].queue
             e == flushes[f].emitted[1]
         IN /\ e.count = Len(q)
            /\ e.cacheHitCount =
                 Cardinality({j \in DOMAIN q : items[q[j]].checked = "hit"})
            /\ e.cacheMissCount =
                 Cardinality({j \in DOMAIN q : items[q[j]].checked = "miss"})
            /\ e.cacheHitCount + e.cacheMissCount = e.count

----------------------------------------------------------------------------
(* C11: batch liveness.  After flush(), whatever calls and enqueues came       *)
(* before, the aggregate 'checkedCache' event is emitted, every item the       *)
(* flush took has its gate released and every handle it took settles: once     *)
(* the event loop has nothing left to run, all three have happened.            *)
C11_BatchLiveness ==
  \A f \in DOMAIN flushes :
    ~(ENABLED QueuePipeline) =>
      /\ flushes[f].emitted # << >>
      /\ \A j \in DOMAIN flushes[f].queue :
           /\ items[flushes[f].queue[j]].released
           /\ HasSettled(calls[items[flushes[f].queue[j]].promise])

----------------------------------------------------------------------------
(* C12: flush in 'all' mode.  The promise flush returns fulfils with the item  *)
(* values in enqueue order exactly when every item has fulfilled; as soon as   *)
(* some item has rejected it is rejected, with the reason of the first item    *)
(* to reject, whether or not the others have settled; and the remaining items  *)
(* still run to completion and persist their results: once the event loop has  *)
(* nothing left to run, every item has settled and every item that ran         *)
(* compute has a record on disk.                                               *)
C12_FlushAll ==
  \A f \in DOMAIN flushes :
    flushes[f].promise = "all" =>
      LET q == flushes[f].queue
          rejected == {j \in DOMAIN q : ItemPromise(f, j).outcome.state = "rejected"}
      IN /\ flushes[f].all.state = "fulfilled"
              <=> \A j \in DOMAIN q : ItemPromise(f, j).outcome.state = "fulfilled"
         /\ flushes[f].all.state = "fulfilled"
              => flushes[f].all.value = [j \in DOMAIN q |-> ItemPromise(f, j).outcome.value]
         /\ flushes[f].all.state = "rejected" <=> rejected # {}
         /\ rejected # {} =>
              \E j \in rejected :
                /\ \A i \in rejected : SeenAt(f, j) <= SeenAt(f, i)
                /\ flushes[f].all.value = ItemPromise(f, j).outcome.value
         /\ (rejected # {} /\ ~(ENABLED QueuePipeline)) =>
              \A j \in DOMAIN q :
                /\ HasSettled(ItemPromise(f, j))
                /\ RunCount(ItemPromise(f, j)) > 0 => ItemPromise(f, j).key \in DOMAIN disk

----------------------------------------------------------------------------
(* C13: flush in 'allSettled' mode.  The promise flush returns never rejects;  *)
(* it has resolved exactly when every item has settled, and then to an array   *)
(* in enqueue order whose j-th entry is {value, state: 'fulfilled'} if item j  *)
(* fulfilled and {reason, state: 'rejected'} if item j rejected.               *)
C13_FlushAllSettled ==
  \A f \in DOMAIN flushes :
    flushes[f].promise = "allSettled" =>
      LET q == flushes[f].queue
      IN /\ flushes[f].all.state \in {"pending", "fulfilled"}
         /\ flushes[f].all.state = "fulfilled"
              <=> \A j \in DOMAIN q : HasSettled(ItemPromise(f, j))
         /\ flushes[f].all.state = "fulfilled" =>
              /\ DOMAIN flushes[f].all.value = DOMAIN q
              /\ \A j \in DOMAIN q :
                   flushes[f].all.value[j] =
                     IF ItemPromise(f, j).outcome.state = "fulfilled"
                     THEN [value |-> ItemPromise(f, j).outcome.value, state |-> "fulfilled"]
                     ELSE [reason |-> ItemPromise(f, j).outcome.value, state |-> "rejected"]

\* An 'allSettled' flush of two items, the first fulfilled and the second
\* rejected, has resolved
C13_Witness ==
  \E f \in DOMAIN flushes :
    /\ flushes[f].promise = "allSettled"
    /\ Len(flushes[f].queue) = 2
    /\ flushes[f].emitted # << >>
    /\ flushes[f].all.state = "fulfilled"
    /\ flushes[f].all.value[1] = [value |-> Num(3), state |-> "fulfilled"]
    /\ flushes[f].all.value[2].state = "rejected"
    /\ flushes[f].all.value[2].reason = ErrorObj("boom", FALSE)

----------------------------------------------------------------------------
(* C14: flush with { promise: false }.  No aggregate promise is made, yet the  *)
(* aggregate 'checkedCache' event is still emitted and the gate of every item  *)
(* the flush took is still released, so every enqueued handle settles on its   *)
(* own: once the event loop has nothing left to run, all of that has happened. *)
C14_FlushNoPromise ==
  \A f \in DOMAIN flushes :
    flushes[f].promise = "false" =>
      /\ flushes[f].all.state = "none"
      /\ ~(ENABLED QueuePipeline) =>
           /\ Len(flushes[f].emitted) = 1
           /\ \A j \in DOMAIN flushes[f].queue :
                /\ items[flushes[f].queue[j]].released
                /\ ItemPromise(f, j).outcome.state \in {"fulfilled", "rejected"}

----------------------------------------------------------------------------
(* C15: clearQueue().  It discards every pending item without executing or     *)
(* erroring it: queuedCount counts only the items neither discarded nor        *)
(* flushed (so it is 0 after clearQueue()), no flush() counts a discarded      *)
(* item or releases its gate, compute is not invoked for a discarded item      *)
(* whose cache check was a miss, and the handle of a discarded item neither    *)
(* resolves nor rejects.                                                       *)
C15_ClearQueue ==
  /\ queuedCount =
       Cardinality({i \in DOMAIN items :
                      /\ ~items[i].discarded
                      /\ \A f \in DOMAIN flushes : \A j \in DOMAIN flushes[f].queue :
                           flushes[f].queue[j] # i})
  /\ \A i \in DOMAIN items :
       items[i].discarded =>
         /\ \A j \in DOMAIN queue : queue[j] # i
         /\ \A f \in DOMAIN flushes :
              /\ \A j \in DOMAIN flushes[f].queue : flushes[f].queue[j] # i
              /\ flushes[f].emitted # << >> =>
                   flushes[f].emitted[1].count = Len(flushes[f].queue)
         /\ ~items[i].released
         /\ items[i].checked = "miss" => RunCount(calls[items[i].promise]) = 0
         /\ calls[items[i].promise].outcome.state = "pending"

----------------------------------------------------------------------------
(* C16: cleanUnused() removes the unused.  Once cleanUnused() has completed,   *)
(* every entry of the cache folder it found (result record or artifact) whose  *)
(* key was never passed to a call on this instance has been removed, and no    *)
(* entry with such a key is left on disk.                                      *)
C16_CleanUnusedRemoves ==
  cleaning.pc = "done" =>
    LET passed == {calls[c].key : c \in DOMAIN calls}
    IN /\ \A e \in cleaning.listed : e.prefix \notin passed => e \in cleaning.removed
       /\ \A e \in Entries : e.prefix \in passed

\* A later instance of another version has made a call and completed
\* cleanUnused(), which removed the record and the artifact the earlier
\* instance left and kept its own
C16_Witness ==
  /\ inst = 2
  /\ cleaning.pc = "done"
  /\ \E e1, e2 \in cleaning.removed : e1.sep = "." /\ e2.sep = "-"
  /\ \E c \in DOMAIN calls : calls[c].key \in DOMAIN disk

----------------------------------------------------------------------------
----------------------------------------------------------------------------
(* C18: vanished observed file.  When a record was read whose observed file    *)
(* no longer exists at the time of the check, the call does not fail: the      *)
(* lookup is a miss ('cacheMiss' is emitted), compute is invoked again and     *)
(* the call settles with the recomputed outcome.                               *)
C18_VanishedFile ==
  \A c \in DOMAIN calls :
    ( /\ calls[c].found
      /\ calls[c].stored # << >>
      /\ calls[c].live # << >>
      /\ ~calls[c].live[1].exists )
    => /\ calls[c].pc # "failed"
       /\ IsMiss(calls[c])
       /\ calls[c].log[2] = "cacheMiss"
       /\ HasSettled(calls[c]) =>
            /\ RunCount(calls[c]) = 1
            /\ calls[c].outcome = OutcomeOf(calls[c].base, calls[c].args)

----------------------------------------------------------------------------
(* C19: observe() tolerates a missing file.  observe(path) returns its         *)
(* argument; when the observed file does not exist, the call does not reject   *)
(* for that reason: it goes on with compute's own outcome, the record of that  *)
(* outcome is written, and the call settles with it.                           *)
C19_ObserveMissing ==
  \A c \in DOMAIN calls :
    calls[c].observed # << >> =>
      /\ calls[c].observed[1].returned = "F"
      /\ ~calls[c].observed[1].existed =>
           /\ calls[c].pc # "failed"
           /\ calls[c].base.state = RunFn(calls[c].args).state
           /\ calls[c].wtext.state = RunFn(calls[c].args).state
           /\ HasSettled(calls[c]) =>
                /\ calls[c].wrote = "done"
                /\ calls[c].outcome = OutcomeOf(calls[c].base, calls[c].args)

\* run() observed a file that does not exist; the call resolved with the value
\* run() returned and its record is on disk
C19_Witness ==
  \E c \in DOMAIN calls :
    /\ calls[c].observed = <<[returned |-> "F", existed |-> FALSE]>>
    /\ calls[c].pc = "done"
    /\ ~cls.after
    /\ calls[c].outcome = [state |-> "fulfilled", value |-> Num(3)]
    /\ calls[c].key \in DOMAIN disk
    /\ disk[calls[c].key] = calls[c].wtext

----------------------------------------------------------------------------
(* C20: invalid version.  On an instance whose version is neither a string     *)
(* nor a number every direct call and every enqueue fails synchronously with   *)
(* the version error and changes nothing: the used-key set, the in-flight      *)
(* map and the queue stay empty, no promise is made, so no event is emitted    *)
(* and compute is not invoked.                                                 *)
C20_InvalidVersion ==
  TypeOf(VersionOf(cls)) \notin {"string", "number"} =>
    /\ Len(thrown) = ncalls
    /\ \A i \in DOMAIN thrown :
         thrown[i].error = ErrorObj("version must be a string or number", TRUE)
    /\ usedCacheKeys = {}
    /\ currentlyRunningMap = << >>
    /\ calls = << >>
    /\ items = << >>
    /\ queue = << >>
    /\ queuedCount = 0
    /\ disk = << >>

\* On an instance whose version is null a direct call and an enqueue have
\* both thrown
C20_Witness ==
  /\ cls.version = Null
  /\ \E i, j \in DOMAIN thrown : thrown[i].from = "call" /\ thrown[j].from = "enqueue"
  /\ calls = << >>

----------------------------------------------------------------------------
(* C21: key stability under input selection.  Two argument lists with the      *)
(* same derived input (what static cacheKey returns, or the whole list) get    *)
(* the same cache key under classes of the same version, whatever the          *)
(* arguments the selection drops; so of two such calls made one after the      *)
(* other with the observed file untouched the second is a cache hit and        *)
(* compute runs once, in the first.                                            *)
C21_KeyStability ==
  /\ \A c \in DOMAIN calls : \A args \in ArgsSet :
       cacheKeyFn(cls, args) = cacheKeyFn(cls, calls[c].args)
         => CacheKeyOf(cls, args) = calls[c].key
  /\ \A c1, c2 \in DOMAIN calls :
       cacheKeyFn(cls, calls[c1].args) = cacheKeyFn(cls, calls[c2].args)
         => calls[c1].key = calls[c2].key
  /\ \A c1, c2 \in DOMAIN calls :
       ( /\ c1 < c2
         /\ cacheKeyFn(cls, calls[c1].args) = cacheKeyFn(cls, calls[c2].args)
         /\ calls[c1].pc = "done"
         /\ calls[c1].born = now
         /\ HasChecked(calls[c2]) )
       => /\ IsHit(calls[c2])
          /\ RunCount(calls[c2]) = 0
          /\ RunCount(calls[c1]) <= 1

\* Two calls whose argument lists differ in the argument the selection drops:
\* the first ran compute, the second had the same key and was a hit
C21_Witness ==
  \E c1, c2 \in DOMAIN calls :
    /\ c1 < c2
    /\ cls.cacheKey = "first"
    /\ calls[c1].args # calls[c2].args
    /\ calls[c1].key = calls[c2].key
    /\ RunCount(calls[c1]) = 1
    /\ IsHit(calls[c2])
    /\ RunCount(calls[c2]) = 0
    /\ calls[c2].pc = "done"

----------------------------------------------------------------------------
(* after() is invoked, once, if and only if the class has one and the cached  *)
(* or computed outcome is fulfilled, on hits and on misses; a call that        *)
(* returns settles with after()'s outcome, and with the stored reason when     *)
(* the outcome was rejected, after() not being invoked.                        *)
AfterIffFulfilled ==
  \A c \in DOMAIN calls :
    LET cr == calls[c]
    IN /\ Invoked(cr) => cls.after /\ cr.base.state = "fulfilled" /\ AfterCount(cr) = 1
       /\ ( /\ cls.after
            /\ cr.base.state = "fulfilled"
            /\ cr.pc \in {"writing", "done"} ) => Invoked(cr)
       /\ cr.pc = "done" =>
            /\ cr.outcome = OutcomeOf(cr.base, cr.args)
            /\ cr.base.state = "rejected" =>
                 /\ ~Invoked(cr)
                 /\ cr.outcome = [state |-> "rejected", value |-> cr.base.reason]

(* C22 as stated: ... and after() receives the decoded value, that is what     *)
(* the value compute returned looks like once read back from the record.       *)
C22_AfterGetsDecoded ==
  /\ AfterIffFulfilled
  /\ \A c \in DOMAIN calls :
       Invoked(calls[c]) =>
         calls[c].base.value = Decoded(RunFn(calls[c].args).value)

(* C22 as amended: post-processing.  after() is invoked if and only if the     *)
(* outcome is fulfilled, on hits and misses, and the call settles with its     *)
(* outcome; it receives the decoded value on a hit, and on a miss when         *)
(* outputConsistency is enabled; on a miss with outputConsistency disabled it  *)
(* receives the value compute returned, not decoded.                           *)
C22_PostProcessing ==
  /\ AfterIffFulfilled
  /\ \A c \in DOMAIN calls :
       Invoked(calls[c]) =>
         calls[c].base.value =
           IF IsHit(calls[c]) \/ cls.outputConsistency
           THEN Decoded(RunFn(calls[c].args).value)
           ELSE RunFn(calls[c].args).value

\* On a class with after() and outputConsistency disabled a miss handed after()
\* the value compute returned, and a hit on that record handed it the decoded
\* value; both calls settled with what after() returned
C22_Witness ==
  \E c1, c2 \in DOMAIN calls :
    /\ cls.after /\ ~cls.outputConsistency
    /\ IsMiss(calls[c1]) /\ Invoked(calls[c1]) /\ calls[c1].pc = "done"
    /\ IsHit(calls[c2]) /\ Invoked(calls[c2]) /\ calls[c2].pc = "done"
    /\ calls[c1].outcome = OutcomeOf(calls[c1].base, calls[c1].args)
    /\ calls[c2].outcome.state = "fulfilled"
    /\ calls[c2].outcome.value.of = Decoded(RunFn(calls[c2].args).value)

----------------------------------------------------------------------------
(* C23: at most one execution per key.  On one instance, whatever the          *)
(* interleaving of direct calls, enqueue, flush and clearQueue, at most one    *)
(* pipeline per cache key is executing; an executing pipeline is the one the   *)
(* in-flight map holds for its key from the call that made it on, so a call    *)
(* for that key can only join it.                                              *)
C23_AtMostOnePerKey ==
  /\ \A key \in usedCacheKeys :
       Cardinality({c \in DOMAIN calls :
                      calls[c].key = key /\ Executing(calls[c])}) <= 1
  /\ \A c \in DOMAIN calls :
       Executing(calls[c]) =>
         /\ calls[c].key \in DOMAIN currentlyRunningMap
         /\ currentlyRunningMap[calls[c].key] = c
  /\ \A i \in DOMAIN items :
       Executing(calls[items[i].promise]) =>
         currentlyRunningMap[calls[items[i].promise].key] = items[i].promise

\* A direct call and an enqueue of one key share the one pipeline of that key,
\* which is running compute after a flush
C23_Witness ==
  \E c \in DOMAIN calls :
    /\ calls[c].handles >= 2
    /\ calls[c].pc = "running"
    /\ \E i \in DOMAIN items : items[i].promise = c /\ items[i].released
    /\ Cardinality({d \in DOMAIN calls : calls[d].key = calls[c].key}) = 1

----------------------------------------------------------------------------
(* C24: in-flight cleanup.  Once a promise has settled, fulfilled or rejected  *)
(* for whatever reason, the in-flight map no longer holds it for its key, so   *)
(* a later call of the key starts a fresh pipeline.                            *)
C24_InFlightCleanup ==
  \A c \in DOMAIN calls :
    HasSettled(calls[c]) =>
      ~ ( /\ calls[c].key \in DOMAIN currentlyRunningMap
          /\ currentlyRunningMap[calls[c].key] = c )

----------------------------------------------------------------------------
(* C25: flush ordering.  Within one flush the aggregate 'checkedCache' event   *)
(* has been emitted only if every item the flush took has completed its cache  *)
(* check, its pipeline having emitted its own 'checkedCache' before; and       *)
(* while the aggregate event has not been emitted no item of the flush has     *)
(* been released and the compute of no item has started.                       *)
C25_FlushOrdering ==
  \A f \in DOMAIN flushes : \A j \in DOMAIN flushes[f].queue :
    LET item == items[flushes[f].queue[j]]
    IN /\ flushes[f].emitted # << >> =>
            /\ item.checked # "pending"
            /\ HasChecked(ItemPromise(f, j))
       /\ flushes[f].emitted = << >> =>
            /\ ~item.released
            /\ RunCount(ItemPromise(f, j)) = 0

----------------------------------------------------------------------------
(* C26: persist before settle.  On a miss the write of the record is started   *)
(* when compute has finished and is under way while after() runs; as long as   *)
(* it has not completed the promise has not settled and the in-flight map      *)
(* holds it; so a miss that has settled has a completed write, and one that    *)
(* fulfilled has its record on disk.                                           *)
C26_PersistBeforeSettle ==
  \A c \in DOMAIN calls :
    LET cr == calls[c]
    IN /\ RunCount(cr) = 1 /\ cr.pc # "running" => cr.wrote # "none"
       /\ cr.wrote = "pending" =>
            /\ ~HasSettled(cr)
            /\ cr.key \in DOMAIN currentlyRunningMap
            /\ currentlyRunningMap[cr.key] = c
       /\ RunCount(cr) = 1 /\ HasSettled(cr) => cr.wrote \in {"done", "failed"}
       /\ RunCount(cr) = 1 /\ cr.pc = "done" =>
            /\ cr.wrote = "done"
            /\ cr.key \in DOMAIN disk
            /\ \/ disk[cr.key] = cr.wtext
               \/ \E d \in DOMAIN calls :
                    d > c /\ calls[d].key = cr.key /\ calls[d].wrote = "done"

\* A miss of a class with after() fulfilled with what after() returned; the
\* write had been started before after() ran, and the record is on disk
C26_Witness ==
  \E c \in DOMAIN calls :
    /\ cls.after
    /\ IsMiss(calls[c])
    /\ Invoked(calls[c])
    /\ calls[c].pc = "done"
    /\ calls[c].outcome.state = "fulfilled"
    /\ calls[c].wrote = "done"
    /\ calls[c].key \in DOMAIN disk
    /\ disk[calls[c].key] = calls[c].wtext

----------------------------------------------------------------------------
----------------------------------------------------------------------------
(* C28: absence is recorded.  When compute observed a path that did not exist  *)
(* the record written notes it, and once the file has appeared a later call    *)
(* of the key is a miss and runs compute again.                                *)
C28_AbsenceRecorded ==
  \A c1, c2 \in DOMAIN calls :
    ( /\ c1 < c2
      /\ calls[c1].key = calls[c2].key
      /\ calls[c1].pc = "done"
      /\ calls[c1].observed # << >>
      /\ ~calls[c1].observed[1].existed
      /\ file.exists
      /\ file.birth > calls[c1].born
      /\ calls[c2].born >= file.birth
      /\ HasChecked(calls[c2]) )
    => /\ calls[c1].wtext.observedFiles # << >>
       /\ IsMiss(calls[c2])
       /\ RunCount(calls[c2]) = 1

----------------------------------------------------------------------------
(* C29: storage errors.  When the write of a record has failed, the call       *)
(* rejects with the error of the write once its pipeline gets to await it, no  *)
(* second write is made, and the records on disk are as they were: the record  *)
(* of this key is the one the lookup read, or none, and every record on disk   *)
(* is the whole text of a write that completed.                                *)
C29_StorageErrors ==
  /\ \A c \in DOMAIN calls :
       LET cr == calls[c]
       IN cr.wrote = "failed" =>
            /\ cr.pc \in {"afterMiss", "failed"}
            /\ cr.pc = "failed" =>
                 cr.outcome = [state |-> "rejected", value |-> ErrorObj("ENOSPC", TRUE)]
            /\ RunCount(cr) = 1
            /\ IF cr.found
               THEN /\ cr.key \in DOMAIN disk
                    /\ writer[cr.key] = cr.foundBy
                    /\ deserializeResult(disk[cr.key]).observedFiles = cr.stored
               ELSE cr.key \notin DOMAIN disk
  /\ \A k \in DOMAIN disk :
       \E d \in DOMAIN calls :
         /\ calls[d].key = k
         /\ calls[d].wrote = "done"
         /\ disk[k] = calls[d].wtext

\* The record of a first call is on disk; the observed file changed, a second
\* call of the key recomputed, its write failed and it rejected with the
\* error of the write, leaving the first call's record
C29_Witness ==
  \E c1, c2 \in DOMAIN calls :
    /\ c1 < c2
    /\ calls[c1].key = calls[c2].key
    /\ calls[c1].wrote = "done"
    /\ calls[c2].wrote = "failed"
    /\ calls[c2].pc = "failed"
    /\ calls[c2].outcome = [state |-> "rejected", value |-> ErrorObj("ENOSPC", TRUE)]
    /\ disk[calls[c2].key] = calls[c1].wtext
    /\ calls[c2].wtext # calls[c1].wtext

----------------------------------------------------------------------------
\* What holds of the cache folder's creation in every state
DirReady ==
  /\ dirEnsured <=> dirEnsuredPromise = "fulfilled"
  /\ \A c \in DOMAIN calls :
       LET cr == calls[c]
       IN /\ ( \/ cr.pc \notin {"dirwait", "failed"}
               \/ cr.found
               \/ cr.log # << >>
               \/ cr.wrote # "none" ) => dirEnsured
          /\ dirEnsuredPromise = "rejected" =>
               /\ cr.pc \in {"dirwait", "failed"}
               /\ cr.pc = "failed" =>
                    cr.outcome = [state |-> "rejected", value |-> ErrorObj("EACCES", TRUE)]
  /\ dirEnsuredPromise # "fulfilled" => disk = << >>

\* What holds of every step: the promise settles once and _dirEnsured stays
\* true; a call made before the creation completed waits for the promise, a
\* call made after it starts reading at once
DirReadyStep ==
  /\ dirEnsuredPromise # "pending" => dirEnsuredPromise' = dirEnsuredPromise
  /\ \A c \in DOMAIN calls' \ DOMAIN calls :
       calls'[c].pc = IF dirEnsured THEN "reading" ELSE "dirwait"
  /\ \A c \in DOMAIN calls :
       calls[c].pc = "dirwait" /\ calls'[c].pc # "dirwait" =>
         /\ dirEnsuredPromise # "pending"
         /\ calls'[c].pc = IF dirEnsured THEN "reading" ELSE "failed"

(* C30: directory readiness.  An instance has one promise for the creation of  *)
(* its cache folder, made at construction, which settles once, and             *)
(* _dirEnsured is true exactly when it has fulfilled; a pipeline has read or   *)
(* written a record only if the creation has completed; a call made before    *)
(* that waits for this promise (and throws if it rejects), a call made after   *)
(* it does not wait.                                                           *)
C30_DirectoryReadiness == []DirReady /\ [][DirReadyStep]_vars

\* Two calls were made before the cache folder was ready: the creation has
\* completed, the first has gone on to read and the second is about to
C30_Witness ==
  \E c1, c2 \in DOMAIN calls :
    /\ c1 < c2
    /\ dirEnsured
    /\ calls[c2].pc = "dirwait"
    /\ calls[c1].pc \notin {"dirwait", "failed"}

----------------------------------------------------------------------------
(* C31: codec round trip.  For every result whose value or reason is a JSON    *)
(* value, deserializeResult(serializeResult(r)) has the state and the          *)
(* observedFiles of r, the value of r when r is fulfilled, and the reason of   *)
(* r when r is rejected with a value that is not an Error.                     *)
C31_CodecRoundTrip ==
  codec.back # NoResult =>
    /\ codec.back.state = codec.result.state
    /\ codec.back.observedFiles = codec.result.observedFiles
    /\ codec.result.state = "fulfilled" => codec.back.value = codec.result.value
    /\ codec.result.state = "rejected" => codec.back.reason = codec.result.reason

----------------------------------------------------------------------------
(* C32: post-process failures are treated like compute failures.  When         *)
(* after() throws, the call rejects with the reason as it is decoded from the  *)
(* record, the record written for the key holds the rejection, and a later     *)
(* call of the key with the observed file untouched is a hit on that rejected  *)
(* record, which does not invoke after() again.                                *)
C32_AfterFailureMemoized ==
  /\ \A c \in DOMAIN calls :
       LET cr == calls[c]
       IN ( /\ cr.pc = "done"
            /\ Invoked(cr)
            /\ AfterFn(cr.args, cr.base.value).state = "rejected" )
          => /\ cr.outcome =
                  [state |-> "rejected",
                   value |-> ErrorObj(AfterFn(cr.args, cr.base.value).reason.message,
                                      FALSE)]
             /\ RunCount(cr) = 1 => cr.wtext.state = "rejected"
  /\ \A c1, c2 \in DOMAIN calls :
       ( /\ c1 < c2
         /\ calls[c1].key = calls[c2].key
         /\ calls[c1].pc = "done"
         /\ calls[c1].born = now
         /\ Invoked(calls[c1])
         /\ AfterFn(calls[c1].args, calls[c1].base.value).state = "rejected"
         /\ HasChecked(calls[c2]) )
       => /\ IsHit(calls[c2])
          /\ calls[c2].base.state = "rejected"
          /\ ~Invoked(calls[c2])

----------------------------------------------------------------------------
(* C33: flush() on an empty queue is a no-op.  Called once or twice in a row,  *)
(* it leaves the queue, the in-flight registry, the used-key set, the disk and *)
(* every pipeline as they were (so no run() is started), the promise it        *)
(* returns is fulfilled with the empty array, and the event it emits reports   *)
(* count 0, cacheHitCount 0 and cacheMissCount 0.                              *)
EmptyFlushReport ==
  \A f \in DOMAIN flushes :
    (flushes[f].queue = << >> /\ flushes[f].emitted # << >>)
      => flushes[f].emitted = <<[count |-> 0, cacheHitCount |-> 0, cacheMissCount |-> 0]>>

EmptyFlushStep ==
  /\ (queue = << >> /\ Len(flushes') = Len(flushes) + 1)
       => /\ UNCHANGED <<queue, currentlyRunningMap, usedCacheKeys, disk, artifacts,
                         calls, items>>
          /\ flushes'[Len(flushes')].queue = << >>
          /\ flushes'[Len(flushes')].promise # "false"
               => flushes'[Len(flushes')].all = [state |-> "fulfilled", value |-> << >>]
  /\ \A f \in DOMAIN flushes :
       (flushes[f].queue = << >> /\ flushes'[f].emitted # flushes[f].emitted)
         => UNCHANGED <<queue, currentlyRunningMap, usedCacheKeys, disk, artifacts,
                        calls, items>>

C33_EmptyFlush == []EmptyFlushReport /\ [][EmptyFlushStep]_vars

\* Two flushes of an empty queue in a row, while a call is in flight, have both
\* emitted their event
C33_Witness ==
  /\ Len(flushes) = 2
  /\ \A f \in DOMAIN flushes : flushes[f].queue = << >> /\ flushes[f].emitted # << >>
  /\ flushes[1].promise = "all"
  /\ flushes[2].promise = "allSettled"
  /\ DOMAIN currentlyRunningMap # {}

----------------------------------------------------------------------------
(* C34: post-processing uses each call's own arguments.  Whenever a call is    *)
(* handed the promise of a pipeline that is in flight for its cache key, the   *)
(* after() of that pipeline, which is applied to the arguments the pipeline    *)
(* was started with, gives what after() applied to this call's own arguments   *)
(* gives, also when the two calls differ in an argument the key drops.         *)
JoinsOwnArguments ==
  \A args \in ArgsSet :
    LET cacheKey == CacheKeyOf(cls, args)
    IN ( /\ Call(args)
         /\ cls.after
         /\ ~InvalidVersion(cls)
         /\ cacheKey \in DOMAIN currentlyRunningMap )
       => \A v \in {Num(1), NaN} :
            AfterFn(args, v) = AfterFn(calls[currentlyRunningMap[cacheKey]].args, v)

C34_OwnArguments == [][JoinsOwnArguments]_vars

----------------------------------------------------------------------------
(* C35: direct calls are not gated.  A direct call settles without any         *)
(* flush(): a direct call is never handed the promise of a pipeline that       *)
(* waits on the gate of an item no flush() has taken.  (A pipeline that a      *)
(* direct call starts itself has no gate: DirectSettles.)                      *)
Taken(i) ==
  \E f \in DOMAIN flushes : \E j \in DOMAIN flushes[f].queue : flushes[f].queue[j] = i

DirectSettles ==
  \A c \in DOMAIN calls :
    (calls[c].gate = 0 /\ ~(ENABLED QueuePipeline)) => HasSettled(calls[c])

DirectNotGated ==
  \A args \in QueueArgs :
    LET cacheKey == CacheKeyOf(cls, args)
    IN ( /\ Call(args)
         /\ ~InvalidVersion(cls)
         /\ cacheKey \in DOMAIN currentlyRunningMap )
       => LET cr == calls[currentlyRunningMap[cacheKey]]
          IN cr.gate # 0 => (items[cr.gate].released \/ Taken(cr.gate))

C35_DirectNotGated == [][DirectNotGated]_vars

----------------------------------------------------------------------------
(* C36: recovery after clearQueue().  When clearQueue() has discarded an item  *)
(* for a cache key and the key is enqueued again and flushed, then, once the   *)
(* event loop has nothing left to run, that flush has emitted its aggregate    *)
(* 'checkedCache' event and the handle of the new item has settled.            *)
C36_RecoveryAfterClear ==
  ~(ENABLED QueuePipeline) =>
    \A f \in DOMAIN flushes : \A j \in DOMAIN flushes[f].queue :
      LET n == flushes[f].queue[j]
      IN (\E i \in DOMAIN items :
            /\ i < n
            /\ items[i].discarded
            /\ calls[items[i].promise].key = calls[items[n].promise].key)
         => /\ flushes[f].emitted # << >>
            /\ HasSettled(calls[items[n].promise])

----------------------------------------------------------------------------
(* C37: cleanUnused() with outstanding calls.  Every key of the in-flight      *)
(* registry is in the used-key set, and cleanUnused() neither removes nor      *)
(* schedules for removal the record or the artifact of a key for which a call  *)
(* or an enqueue was made on this instance before cleanUnused() was called,    *)
(* whether its pipeline is still in flight, waits in the queue for a flush,    *)
(* or has settled.                                                             *)
C37_CleanUnusedOutstanding ==
  /\ \A k \in DOMAIN currentlyRunningMap : k \in usedCacheKeys
  /\ \A i \in DOMAIN items : calls[items[i].promise].key \in usedCacheKeys
  /\ \A c \in DOMAIN calls :
       calls[c].key \in cleaning.usedAtCall =>
         /\ EntryName(calls[c].key, ".") \notin cleaning.removed \cup cleaning.todo
         /\ EntryName(calls[c].key, "-") \notin cleaning.removed \cup cleaning.todo
         /\ EntryName(calls[c].key, ".") \in cleaning.listed
              => calls[c].key \in DOMAIN disk

\* cleanUnused() has completed while an enqueued item, whose cache check was a
\* hit, still waits in the queue for a flush: the record of its key is on disk
C37_Witness ==
  /\ cleaning.pc = "done"
  /\ \E j \in DOMAIN queue :
       LET cr == calls[items[queue[j]].promise]
       IN /\ cr.pc = "gated"
          /\ IsHit(cr)
          /\ cr.key \in cleaning.usedAtCall
          /\ cr.key \in DOMAIN currentlyRunningMap
          /\ EntryName(cr.key, ".") \in cleaning.listed \cap Entries

----------------------------------------------------------------------------
(* C38: key separation.  The string handed to sha1 is injective over pairs of  *)
(* a version and a derived input: two derivations that give the same string    *)
(* have the same version and the same canonicalized derived input.             *)
C38_KeySeparation ==
  \A i, j \in DOMAIN derived.keys :
    derived.keys[i] = derived.keys[j] =>
      /\ derived.pairs[i].version = derived.pairs[j].version
      /\ Canonical(derived.pairs[i].input) = Canonical(derived.pairs[j].input)

----------------------------------------------------------------------------
(* C39: enqueued hits are withheld too.  For every item made by enqueue(),     *)
(* whether its cache check was a hit or a miss: as long as no flush() has      *)
(* released the item's gate, after() has not been started for its pipeline     *)
(* and its handle has not settled.                                             *)
C39_EnqueuedWithheld ==
  \A i \in DOMAIN items :
    ~items[i].released =>
      /\ AfterCount(calls[items[i].promise]) = 0
      /\ ~HasSettled(calls[items[i].promise])

----------------------------------------------------------------------------
(* C40: queue bookkeeping.  The queue holds, in order, exactly the items made  *)
(* by the enqueue() calls since the most recent flush() or clearQueue(), and   *)
(* queuedCount is their number; flush() takes the whole queue and leaves it    *)
(* empty in the same step; every item belongs to at most one flush and to no   *)
(* flush once it is discarded; an item's gate is released only by the flush    *)
(* that took it, when that flush emits its event, and never twice.             *)
LastGone ==
  LET gone == {i \in DOMAIN items : items[i].discarded \/ Taken(i)}
  IN IF gone = {} THEN 0 ELSE CHOOSE i \in gone : \A k \in gone : k <= i

QueueBookkeeping ==
  /\ queuedCount = Len(items) - LastGone
  /\ \A j \in DOMAIN queue : queue[j] = LastGone + j
  /\ \A i \in 1..LastGone : items[i].discarded \/ Taken(i)
  /\ \A f1, f2 \in DOMAIN flushes :
       \A j1 \in DOMAIN flushes[f1].queue : \A j2 \in DOMAIN flushes[f2].queue :
         flushes[f1].queue[j1] = flushes[f2].queue[j2] => (f1 = f2 /\ j1 = j2)
  /\ \A i \in DOMAIN items :
       /\ items[i].discarded => ~Taken(i)
       /\ items[i].released =>
            \E f \in DOMAIN flushes :
              /\ flushes[f].emitted # << >>
              /\ \E j \in DOMAIN flushes[f].queue : flushes[f].queue[j] = i
  /\ \A f \in DOMAIN flushes : Len(flushes[f].emitted) <= 1

QueueBookkeepingStep ==
  /\ Len(flushes') = Len(flushes) + 1
       => (queue' = << >> /\ flushes'[Len(flushes')].queue = queue)
  /\ Len(items') = Len(items) + 1
       => queue' = Append(queue, Len(items'))
  /\ \A i \in DOMAIN items :
       items'[i].released # items[i].released
         => /\ ~items[i].released
            /\ \E f \in DOMAIN flushes :
                 /\ flushes[f].emitted = << >>
                 /\ flushes'[f].emitted # << >>
                 /\ \E j \in DOMAIN flushes[f].queue : flushes[f].queue[j] = i

C40_QueueBookkeeping == []QueueBookkeeping /\ [][QueueBookkeepingStep]_vars

\* Two flushes have each taken items, emitted their event and released the
\* gates of the items they took
C40_Witness ==
  /\ Len(flushes) = 2
  /\ \A f \in DOMAIN flushes : flushes[f].queue # << >> /\ flushes[f].emitted # << >>
  /\ \A f \in DOMAIN flushes : \A j \in DOMAIN flushes[f].queue :
       items[flushes[f].queue[j]].released

====
